---- MODULE Spec2Model ----
(***************************************************************************)
(* L-system engine of NeoVand/lsystems: sequential derivation (derive.ts), *)
(* GPU derivation (gpu-derive.ts and its WGSL kernels), the CPU turtles    *)
(* (cpu-turtle.ts, fast-turtle.ts), the GPU turtle (gpu-turtle.ts and      *)
(* turtle-transform.wgsl) and the store that drives them                   *)
(* (lsystem.svelte.ts).                                                    *)
(***************************************************************************)
EXTENDS Integers, Sequences, FiniteSets, TLC

(***************************************************************************)
(* Bounds of the model                                                     *)
(***************************************************************************)
MaxGenerations == 5

(***************************************************************************)
(* Generic helpers                                                         *)
(***************************************************************************)
Min(a, b) == IF a < b THEN a ELSE b

Max(a, b) == IF a > b THEN a ELSE b

\* Math.ceil(a / b) for positive b
\* the function f with all its values computed
Eager(f) == CHOOSE g \in {f} : g = f

CeilDiv(a, b) == (a + b - 1) \div b

(***************************************************************************)
(* Symbols (grammar/types.ts).  A symbol is an id and an optional list of  *)
(* numeric parameters; "no params" is the empty sequence.                  *)
(***************************************************************************)
Sym(c) == [id |-> c, params |-> <<>>]

PSym(c, ps) == [id |-> c, params |-> ps]

RECURSIVE StringToSymbols(_)
StringToSymbols(chars) ==
    IF chars = <<>> THEN <<>>
    ELSE <<Sym(Head(chars))>> \o StringToSymbols(Tail(chars))

Ids(symbols) == [i \in 1..Len(symbols) |-> symbols[i].id]

\* String.prototype.charCodeAt(0) on the one-character ids of the alphabet
CharCodeAt(c) ==
    CASE c = "F" -> 70
      [] c = "G" -> 71
      [] c = "A" -> 65
      [] c = "B" -> 66
      [] c = "X" -> 88
      [] c = "f" -> 102
      [] c = "g" -> 103
      [] c = "+" -> 43
      [] c = "-" -> 45
      [] c = "[" -> 91
      [] c = "]" -> 93
      [] c = "|" -> 124
      [] OTHER -> 0

\* String.fromCharCode
FromCharCode(n) ==
    CASE n = 70 -> "F"
      [] n = 71 -> "G"
      [] n = 65 -> "A"
      [] n = 66 -> "B"
      [] n = 88 -> "X"
      [] n = 102 -> "f"
      [] n = 103 -> "g"
      [] n = 43 -> "+"
      [] n = 45 -> "-"
      [] n = 91 -> "["
      [] n = 93 -> "]"
      [] n = 124 -> "|"
      [] OTHER -> "NUL"

(***************************************************************************)
(* Expressions (grammar/expression.ts).  evaluateExpression either returns *)
(* a number or throws; a throw is the result Err.                          *)
(***************************************************************************)
Ok(v) == [ok |-> TRUE, value |-> v]

Err == [ok |-> FALSE, value |-> 0]

Num(v) == [type |-> "number", value |-> v]

Var(n) == [type |-> "variable", name |-> n]

Bin(o, l, r) == [type |-> "binary", op |-> o, left |-> l, right |-> r]

BinaryOp(op, left, right) ==
    CASE op = "+" -> left + right
      [] op = "-" -> left - right
      [] op = "*" -> left * right
      [] op = "<" -> IF left < right THEN 1 ELSE 0
      [] op = ">" -> IF left > right THEN 1 ELSE 0
      [] op = "<=" -> IF left <= right THEN 1 ELSE 0
      [] op = ">=" -> IF left >= right THEN 1 ELSE 0
      [] op = "==" -> IF left = right THEN 1 ELSE 0
      [] op = "!=" -> IF left # right THEN 1 ELSE 0
      [] OTHER -> 0

RECURSIVE evaluateExpression(_, _)
evaluateExpression(expr, vars) ==
    CASE expr.type = "number" -> Ok(expr.value)
      [] expr.type = "variable" ->
            IF expr.name \in DOMAIN vars THEN Ok(vars[expr.name]) ELSE Err
      [] expr.type = "binary" ->
            LET left == evaluateExpression(expr.left, vars)
                right == evaluateExpression(expr.right, vars)
            IN  IF ~left.ok \/ ~right.ok THEN Err
                ELSE Ok(BinaryOp(expr.op, left.value, right.value))
      [] expr.type = "call" ->
            IF expr.name \notin {"abs", "min", "max"} THEN Err
            ELSE LET a == evaluateExpression(expr.args[1], vars)
                 IN  IF ~a.ok THEN Err
                     ELSE IF expr.name = "abs"
                     THEN Ok(IF a.value < 0 THEN 0 - a.value ELSE a.value)
                     ELSE LET b == evaluateExpression(expr.args[2], vars)
                          IN  IF ~b.ok THEN Err
                              ELSE IF expr.name = "min" THEN Ok(Min(a.value, b.value))
                              ELSE Ok(Max(a.value, b.value))
      [] OTHER -> Ok(0)

(***************************************************************************)
(* Rules.  A probability is kept in quarters: 4 is 1.0 (the default),      *)
(* 2 is 0.5, 1 is 0.25.                                                    *)
(***************************************************************************)
ProbUnit == 4

D0L(pred, succ, prob) ==
    [predecessor |-> pred, successor |-> StringToSymbols(succ), probability |-> prob]

\* mutant: every rule is a candidate for every symbol
RulesFor_All(rules, id) == rules

\* rules.filter(r => r.predecessor === id), in rule order (the Map of derive)
RECURSIVE RulesFor(_, _)
RulesFor(rules, id) ==
    IF rules = <<>> THEN <<>>
    ELSE (IF Head(rules).predecessor = id THEN <<Head(rules)>> ELSE <<>>)
         \o RulesFor(Tail(rules), id)

RECURSIVE TotalProb(_)
TotalProb(rules) ==
    IF rules = <<>> THEN 0 ELSE Head(rules).probability + TotalProb(Tail(rules))

\* selectStochasticRule: rand is Math.random() * totalProb, in [0, totalProb)
RECURSIVE PickCumulative(_, _, _)
PickCumulative(rules, rand, cumulative) ==
    IF Len(rules) = 1 THEN Head(rules)
    ELSE IF rand < cumulative + Head(rules).probability THEN Head(rules)
    ELSE PickCumulative(Tail(rules), rand, cumulative + Head(rules).probability)

\* mutant: the loop compares with rand <= cumulative
selectStochasticRule_Inclusive(rules, rand) ==
    LET RECURSIVE Pick(_, _)
        Pick(k, cumulative) ==
            IF k = Len(rules) \/ rand <= cumulative + rules[k].probability THEN rules[k]
            ELSE Pick(k + 1, cumulative + rules[k].probability)
    IN  IF Len(rules) = 1 THEN rules[1] ELSE Pick(1, 0)

selectStochasticRule(rules, rand) ==
    IF Len(rules) = 1 THEN rules[1] ELSE PickCumulative(rules, rand, 0)

\* the draws Math.random() * totalProb can produce, to the model's resolution
Draws(rules) ==
    IF Len(rules) <= 1 \/ TotalProb(rules) = 0 THEN {0}
    ELSE 0..(TotalProb(rules) - 1)

(***************************************************************************)
(* Sequential derivation (derive / deriveN with D0L, stochastic and        *)
(* parametric rules).                                                      *)
(***************************************************************************)
PRule(pred, names, cond, succ, prob) ==
    [predecessor |-> pred, params |-> names, condition |-> cond,
     successor |-> succ, probability |-> prob]

PSucc(c, exprs) == [symbol |-> c, params |-> exprs]

\* vars[rule.params[p]] = symbol.params[p]
Binding(rule, symbol) ==
    [n \in {rule.params[p] : p \in 1..Len(rule.params)} |->
        symbol.params[CHOOSE p \in 1..Len(rule.params) :
            /\ rule.params[p] = n
            /\ \A q \in 1..Len(rule.params) : rule.params[q] = n => q <= p]]

\* mutant: the condition of a rule is not looked at
ParamRuleMatches_AnyCondition(rule, symbol) == Len(rule.params) = Len(symbol.params)

\* the filter of derive: arity matches and the condition, if any, is truthy;
\* a condition that throws skips the rule
ParamRuleMatches(rule, symbol) ==
    /\ Len(rule.params) = Len(symbol.params)
    /\ \/ rule.condition.type = "none"
       \/ /\ rule.condition.type # "none"
          /\ LET condResult == evaluateExpression(rule.condition, Binding(rule, symbol))
             IN  condResult.ok /\ condResult.value # 0

RECURSIVE MatchingRules(_, _)
MatchingRules(paramRules, symbol) ==
    IF paramRules = <<>> THEN <<>>
    ELSE (IF ParamRuleMatches(Head(paramRules), symbol) THEN <<Head(paramRules)>> ELSE <<>>)
         \o MatchingRules(Tail(paramRules), symbol)

\* mutant: the catch block pushes nothing
EvalParams_SkipFailed(exprs, vars) ==
    LET ok == {k \in 1..Len(exprs) : evaluateExpression(exprs[k], vars).ok}
        Nth(n) == CHOOSE k \in ok : Cardinality({m \in ok : m <= k}) = n
    IN  [n \in 1..Cardinality(ok) |-> evaluateExpression(exprs[Nth(n)], vars).value]

\* newParams of one successor symbol: a failed evaluation pushes 0
EvalParams(exprs, vars) ==
    [k \in 1..Len(exprs) |->
        LET v == evaluateExpression(exprs[k], vars) IN IF v.ok THEN v.value ELSE 0]

ApplyParamRule(rule, symbol) ==
    [j \in 1..Len(rule.successor) |->
        PSym(rule.successor[j].symbol,
             EvalParams(rule.successor[j].params, Binding(rule, symbol)))]

\* mutant: the copy loop stops one symbol short
ApplyD0LRule_DropLast(rule) ==
    [j \in 1..(Len(rule.successor) - 1) |-> Sym(rule.successor[j].id)]

ApplyD0LRule(rule) ==
    [j \in 1..Len(rule.successor) |-> Sym(rule.successor[j].id)]

\* the rules the loop body chooses among for one symbol
ParamCandidates(symbol, parametricRules) ==
    IF Len(symbol.params) > 0
    THEN MatchingRules(RulesFor(parametricRules, symbol.id), symbol)
    ELSE <<>>

\* the draws the loop body can make for one symbol
SymbolDraws(symbol, rules, parametricRules) ==
    IF ParamCandidates(symbol, parametricRules) # <<>>
    THEN Draws(ParamCandidates(symbol, parametricRules))
    ELSE IF RulesFor(rules, symbol.id) # <<>> THEN Draws(RulesFor(rules, symbol.id))
    ELSE {0}

\* mutant: the identity branch pushes the id without the parameters
DeriveSymbol_DropParams(symbol, rules, parametricRules, rand) ==
    LET matchingRules == ParamCandidates(symbol, parametricRules)
        d0lRules == RulesFor(rules, symbol.id)
    IN  IF matchingRules # <<>>
        THEN ApplyParamRule(selectStochasticRule(matchingRules, rand), symbol)
        ELSE IF d0lRules # <<>>
        THEN ApplyD0LRule(selectStochasticRule(d0lRules, rand))
        ELSE <<Sym(symbol.id)>>

\* body of the loop of derive for one input symbol
DeriveSymbol(symbol, rules, parametricRules, rand) ==
    LET matchingRules == ParamCandidates(symbol, parametricRules)
        d0lRules == RulesFor(rules, symbol.id)
    IN  IF matchingRules # <<>>
        THEN ApplyParamRule(selectStochasticRule(matchingRules, rand), symbol)
        ELSE IF d0lRules # <<>>
        THEN ApplyD0LRule(selectStochasticRule(d0lRules, rand))
        ELSE <<PSym(symbol.id, symbol.params)>>

\* derive for a grammar without choice (every draw is 0)
RECURSIVE derive(_, _, _)
derive(symbols, rules, parametricRules) ==
    IF symbols = <<>> THEN <<>>
    ELSE DeriveSymbol(Head(symbols), rules, parametricRules, 0)
         \o derive(Tail(symbols), rules, parametricRules)

RECURSIVE deriveN(_, _)
deriveN(grammar, generations) ==
    IF generations = 0 THEN grammar.axiom
    ELSE derive(deriveN(grammar, generations - 1), grammar.rules, grammar.parametricRules)

\* length of deriveN's result when the axiom is n copies of the grammar's
\* first axiom symbol and that symbol's successor repeats it in every position
RECURSIVE DerivedLength(_, _, _)
DerivedLength(n, grammar, g) ==
    IF g = 0 THEN n
    ELSE LET d0lRules == RulesFor(grammar.rules, grammar.axiom[1].id)
             k == IF d0lRules # <<>> THEN Len(d0lRules[1].successor) ELSE 1
         IN  k * DerivedLength(n, grammar, g - 1)

\* no two D0L rules share a predecessor and there are no parametric rules
IsDeterministicD0L(grammar) ==
    /\ grammar.parametricRules = <<>>
    /\ \A i, j \in 1..Len(grammar.rules) :
          grammar.rules[i].predecessor = grammar.rules[j].predecessor => i = j
    /\ \A i \in 1..Len(grammar.axiom) : grammar.axiom[i].params = <<>>

\* counts above this are kept as this: no sequence as long is derived
CountCap == 2^24

\* the ids a derivation of the grammar can hold
SymbolIds(grammar) ==
    {grammar.axiom[i].id : i \in 1..Len(grammar.axiom)}
        \cup UNION {{grammar.rules[r].successor[j].id :
                        j \in 1..Len(grammar.rules[r].successor)} :
                    r \in 1..Len(grammar.rules)}

\* Len(deriveN(grammar, generations)) for a deterministic D0L grammar, from the
\* number of symbols of each id: derive replaces every symbol by the successor
\* of the rule of its id and keeps a symbol without rule
DerivedSize(grammar, generations) ==
    LET ids == SymbolIds(grammar)
        Successor(d) ==
            LET d0lRules == RulesFor(grammar.rules, d)
            IN  IF d0lRules # <<>> THEN Ids(d0lRules[1].successor) ELSE <<d>>
        Occurrences(d, c) ==
            Cardinality({j \in 1..Len(Successor(d)) : Successor(d)[j] = c})
        RECURSIVE Sum(_, _)
        Sum(f, S) ==
            IF S = {} THEN 0
            ELSE LET d == CHOOSE x \in S : TRUE IN f[d] + Sum(f, S \ {d})
        Step(before) ==
            Eager([c \in ids |->
                      Min(CountCap,
                          Sum([d \in ids |-> before[d] * Occurrences(d, c)], ids))])
        \* g more generations; counts that a generation leaves as they are stay so
        RECURSIVE Counts(_, _)
        Counts(before, g) ==
            IF g = 0 THEN before
            ELSE LET after == Step(before)
                 IN  IF after = before THEN before ELSE Counts(after, g - 1)
        axiomCounts ==
            [c \in ids |->
                Cardinality({i \in 1..Len(grammar.axiom) : grammar.axiom[i].id = c})]
    IN  Min(CountCap, Sum(Counts(axiomCounts, generations), ids))

(***************************************************************************)
(* Bracket structure of a sequence of ids                                  *)
(***************************************************************************)
BracketDelta(c) == IF c = "[" THEN 1 ELSE IF c = "]" THEN 0 - 1 ELSE 0

\* number of "[" minus number of "]" among the first k ids
RECURSIVE PrefixDepth(_, _)
PrefixDepth(ids, k) ==
    IF k = 0 THEN 0 ELSE PrefixDepth(ids, k - 1) + BracketDelta(ids[k])

\* the running depth from position k on, entered at depth d, never goes
\* negative and ends at 0
RECURSIVE BalancedFrom(_, _, _)
BalancedFrom(ids, k, d) ==
    IF d < 0 THEN FALSE
    ELSE IF k > Len(ids) THEN d = 0
    ELSE BalancedFrom(ids, k + 1, d + BracketDelta(ids[k]))

IsBalanced(ids) == BalancedFrom(ids, 1, 0)

GrammarIsBalanced(grammar) ==
    /\ IsBalanced(Ids(grammar.axiom))
    /\ \A i \in 1..Len(grammar.rules) : IsBalanced(Ids(grammar.rules[i].successor))
    /\ \A i \in 1..Len(grammar.parametricRules) :
          IsBalanced([j \in 1..Len(grammar.parametricRules[i].successor) |->
                         grammar.parametricRules[i].successor[j].symbol])

(***************************************************************************)
(* Grammars the derivation runs are started with                           *)
(***************************************************************************)
Grammar(ax, rs, prs) == [axiom |-> ax, rules |-> rs, parametricRules |-> prs]

\* F -> F+F
GrammarDoubling ==
    Grammar(StringToSymbols(<<"F">>), <<D0L("F", <<"F", "+", "F">>, ProbUnit)>>, <<>>)

\* X -> F[+X], F -> FF
GrammarPlant ==
    Grammar(StringToSymbols(<<"X">>),
            <<D0L("X", <<"F", "[", "+", "X", "]">>, ProbUnit),
              D0L("F", <<"F", "F">>, ProbUnit)>>, <<>>)

\* no rule at all: every symbol is kept
GrammarIdentity ==
    Grammar(StringToSymbols(<<"F", "[", "-", "G", "]">>), <<>>, <<>>)

\* axiom FF, F -> F-
GrammarPair ==
    Grammar(StringToSymbols(<<"F", "F">>), <<D0L("F", <<"F", "-">>, ProbUnit)>>, <<>>)

\* stochastic: F -> F[+F] (0.5) | F[-F]F (0.25) | F (0.25)
GrammarStochastic ==
    Grammar(StringToSymbols(<<"F">>),
            <<D0L("F", <<"F", "[", "+", "F", "]">>, 2),
              D0L("F", <<"F", "[", "-", "F", "]", "F">>, 1),
              D0L("F", <<"F">>, 1)>>, <<>>)

\* parametric: A(l) : l > 1 -> F(l)[+A(l-1)],  A(l) : l <= 1 -> F(q)  (q unbound)
GrammarParametric ==
    Grammar(<<PSym("A", <<3>>)>>, <<D0L("F", <<"F", "F">>, ProbUnit)>>,
            <<PRule("A", <<"l">>, Bin(">", Var("l"), Num(1)),
                    <<PSucc("F", <<Var("l")>>), PSucc("[", <<>>), PSucc("+", <<>>),
                      PSucc("A", <<Bin("-", Var("l"), Num(1))>>), PSucc("]", <<>>)>>,
                    ProbUnit),
              PRule("A", <<"l">>, Bin("<=", Var("l"), Num(1)),
                    <<PSucc("F", <<Var("q")>>)>>, ProbUnit)>>)

\* unbalanced successor: F -> F]
GrammarUnbalanced ==
    Grammar(StringToSymbols(<<"[", "F">>), <<D0L("F", <<"F", "]">>, ProbUnit)>>, <<>>)

\* F -> FF: every generation doubles a sequence of F
GrammarSquare ==
    Grammar(StringToSymbols(<<"F">>), <<D0L("F", <<"F", "F">>, ProbUnit)>>, <<>>)

\* F -> FFFF, X -> X: the successors have 4 and 1 symbols, and the axiom F
\* grows fourfold in every generation
GrammarUneven ==
    Grammar(StringToSymbols(<<"F">>),
            <<D0L("F", <<"F", "F", "F", "F">>, ProbUnit), D0L("X", <<"X">>, ProbUnit)>>,
            <<>>)

\* A(l) -> F(foo(l), l+1, q): foo is no builtin and q is unbound.  The axiom
\* A(2) A(1,2) B(7) has a symbol the rule rewrites, one of another arity and
\* one without a rule
GrammarFailing ==
    Grammar(<<PSym("A", <<2>>), PSym("A", <<1, 2>>), PSym("B", <<7>>)>>, <<>>,
            <<PRule("A", <<"l">>, [type |-> "none"],
                    <<PSucc("F", <<[type |-> "call", name |-> "foo", args |-> <<Var("l")>>],
                                   Bin("+", Var("l"), Num(1)), Var("q")>>)>>,
                    ProbUnit)>>)

\* guarded rules for the axiom A(2) B(0):
\*   A(l) : q > 0 -> F(l)      the condition has an unbound variable
\*   A(l) : l - 2 -> G(l)      the condition is 0 for A(2)
\*   A(l, m) -> F(l)           another arity
\*   B(l) : l -> F(l)          the condition is 0 for B(0)
\*   A(l) : l -> A(l - 1)      the condition is the number l
GrammarGuarded ==
    Grammar(<<PSym("A", <<2>>), PSym("B", <<0>>)>>, <<>>,
            <<PRule("A", <<"l">>, Bin(">", Var("q"), Num(0)),
                    <<PSucc("F", <<Var("l")>>)>>, ProbUnit),
              PRule("A", <<"l">>, Bin("-", Var("l"), Num(2)),
                    <<PSucc("G", <<Var("l")>>)>>, ProbUnit),
              PRule("A", <<"l", "m">>, [type |-> "none"],
                    <<PSucc("F", <<Var("l")>>)>>, ProbUnit),
              PRule("B", <<"l">>, Var("l"),
                    <<PSucc("F", <<Var("l")>>)>>, ProbUnit),
              PRule("A", <<"l">>, Var("l"),
                    <<PSucc("A", <<Bin("-", Var("l"), Num(1))>>)>>, ProbUnit)>>)

\* weights 0, 1, 0.25 and 0 on one predecessor, axiom FF:
\* F -> G (0) | + (1) | F (0.25) | - (0)
GrammarWeighted ==
    Grammar(StringToSymbols(<<"F", "F">>),
            <<D0L("F", <<"G">>, 0),
              D0L("F", <<"+">>, ProbUnit),
              D0L("F", <<"F">>, 1),
              D0L("F", <<"-">>, 0)>>, <<>>)

Grammars ==
    {GrammarDoubling, GrammarPlant, GrammarIdentity, GrammarPair,
     GrammarStochastic, GrammarParametric, GrammarUnbalanced, GrammarFailing,
     GrammarGuarded, GrammarWeighted}

\* longest sequence a stochastic run is carried to
MaxSymbols == 12

(***************************************************************************)
(* GPU derivation (gpu-derive.ts): constants                               *)
(***************************************************************************)
WORKGROUP_SIZE == 256

ELEMENTS_PER_BLOCK == 512

MAX_RULES == 64

MAX_SUCCESSORS == 512

MAX_SYMBOLS == 8000000

GPU_THRESHOLD == 1000

InitialBufferSize == 131072

(***************************************************************************)
(* Device buffers.  A buffer is the sequence of the u32 words written so   *)
(* far; a fresh buffer is zero-filled, so a word past the end reads 0.     *)
(* Indices are 0-based as in the kernels.                                  *)
(***************************************************************************)
BufRead(buf, i) == IF i >= 0 /\ i < Len(buf) THEN buf[i + 1] ELSE 0

\* buf after writes[i] has been stored at index i for every i in DOMAIN writes
BufStore(buf, writes) ==
    LET top == IF DOMAIN writes = {} THEN 0
               ELSE 1 + CHOOSE m \in DOMAIN writes : \A k \in DOMAIN writes : k <= m
    IN  [k \in 1..Max(Len(buf), top) |->
            IF (k - 1) \in DOMAIN writes THEN writes[k - 1] ELSE BufRead(buf, k - 1)]

ZeroRule == [predecessor_id |-> 0, successor_count |-> 0, successor_offset |-> 0]

RuleAt(rulesBuf, i) == IF i < Len(rulesBuf) THEN rulesBuf[i + 1] ELSE ZeroRule

\* uploadRules: ruleData, one entry per rule up to MAX_RULES
RECURSIVE RuleData(_, _, _)
RuleData(rules, i, successorOffset) ==
    IF i > Len(rules) \/ i > MAX_RULES THEN <<>>
    ELSE <<[predecessor_id |-> CharCodeAt(rules[i].predecessor),
            successor_count |-> Len(rules[i].successor),
            successor_offset |-> successorOffset]>>
         \o RuleData(rules, i + 1, successorOffset + Len(rules[i].successor))

\* uploadRules: successorData (a store past MAX_SUCCESSORS words is dropped)
RECURSIVE SuccessorData(_, _)
SuccessorData(rules, i) ==
    IF i > Len(rules) \/ i > MAX_RULES THEN <<>>
    ELSE [j \in 1..Len(rules[i].successor) |-> CharCodeAt(rules[i].successor[j].id)]
         \o SuccessorData(rules, i + 1)

ClipSuccessors(data) == SubSeq(data, 1, Min(Len(data), MAX_SUCCESSORS))

(***************************************************************************)
(* Kernels (expansion-counts.wgsl, prefix-sum.wgsl, derive.wgsl)           *)
(***************************************************************************)
\* find_rule of derive.wgsl: index of the first rule for symbol_id, or -1
RECURSIVE find_rule(_, _, _, _)
find_rule(rulesBuf, symbol_id, i, max_rules) ==
    IF i >= max_rules THEN 0 - 1
    ELSE IF RuleAt(rulesBuf, i).predecessor_id = symbol_id THEN i
    ELSE IF RuleAt(rulesBuf, i).predecessor_id = 0 THEN 0 - 1
    ELSE find_rule(rulesBuf, symbol_id, i + 1, max_rules)

\* find_expansion_count of expansion-counts.wgsl
RECURSIVE find_expansion_count(_, _, _, _)
find_expansion_count(rulesBuf, symbol_id, i, max_rules) ==
    IF i >= max_rules THEN 1
    ELSE IF RuleAt(rulesBuf, i).predecessor_id = symbol_id
         THEN RuleAt(rulesBuf, i).successor_count
    ELSE IF RuleAt(rulesBuf, i).predecessor_id = 0 THEN 1
    ELSE find_expansion_count(rulesBuf, symbol_id, i + 1, max_rules)

\* invocations of a dispatch of wg work-groups that pass "idx >= count: return"
Invocations(wg, count) == 0..(Min(wg * WORKGROUP_SIZE, count) - 1)

\* compute_counts: counts[idx] = find_expansion_count(input_symbols[idx])
compute_counts(params, input, rulesBuf, counts, wg) ==
    BufStore(counts,
             [i \in Invocations(wg, params[1]) |->
                 find_expansion_count(rulesBuf, BufRead(input, i), 0, params[2])])

\* scan_blocks, load: two elements per thread, 0 past params.count
LoadBlock(input, count, wg) ==
    [k \in 0..(ELEMENTS_PER_BLOCK - 1) |->
        IF wg * ELEMENTS_PER_BLOCK + k < count
        THEN BufRead(input, wg * ELEMENTS_PER_BLOCK + k) ELSE 0]

\* k is bi_idx = offset * (2 * tid + 2) - 1 of some thread tid < d
IsBi(k, d, offset) ==
    (k + 1) % (2 * offset) = 0 /\ ((k + 1) \div (2 * offset)) - 1 < d

\* k is ai_idx = offset * (2 * tid + 1) - 1 of some thread tid < d
IsAi(k, d, offset) ==
    (k + 1) % (2 * offset) = offset /\ ((k + 1) \div (2 * offset)) < d

\* one up-sweep stage: shared[bi] += shared[ai]
UpLevel(shared, d, offset) ==
    Eager([k \in 0..(ELEMENTS_PER_BLOCK - 1) |->
              IF IsBi(k, d, offset) THEN shared[k] + shared[k - offset] ELSE shared[k]])

RECURSIVE UpSweep(_, _, _)
UpSweep(shared, d, offset) ==
    IF d = 0 THEN shared
    ELSE UpSweep(UpLevel(shared, d, offset), d \div 2, offset * 2)

\* one down-sweep stage: t = shared[ai]; shared[ai] = shared[bi]; shared[bi] += t
DownLevel(shared, d, offset) ==
    Eager([k \in 0..(ELEMENTS_PER_BLOCK - 1) |->
              IF IsBi(k, d, offset) THEN shared[k] + shared[k - offset]
              ELSE IF IsAi(k, d, offset) THEN shared[k + offset]
              ELSE shared[k]])

RECURSIVE DownSweep(_, _, _)
DownSweep(shared, d, offset) ==
    IF d >= ELEMENTS_PER_BLOCK THEN shared
    ELSE DownSweep(DownLevel(shared, d, offset \div 2), d * 2, offset \div 2)

\* scan_blocks for work-group wg: the block total and the scanned block
ScanBlock(input, count, wg) ==
    LET up == UpSweep(LoadBlock(input, count, wg), WORKGROUP_SIZE, 1)
        down == DownSweep([up EXCEPT ![ELEMENTS_PER_BLOCK - 1] = 0], 1, ELEMENTS_PER_BLOCK)
    IN  [sum |-> up[ELEMENTS_PER_BLOCK - 1], scanned |-> down]

\* one iteration of a sweep loop: the threads tid < d work at this offset
Level(d, offset) == [d |-> d, offset |-> offset]

\* all up-sweep iterations run between two barriers
RECURSIVE UpLevels(_, _)
UpLevels(d, offset) ==
    IF d = 0 THEN <<>> ELSE <<Level(d, offset)>> \o UpLevels(d \div 2, offset * 2)

UpStages_OneBarrier(d, offset) ==
    <<[phase |-> "up", levels |-> UpLevels(d, offset), clear |-> TRUE]>>

\* the up-sweep loop: workgroupBarrier() opens every iteration, so an iteration
\* is a stage; the statement "if (tid == 0u)" after the loop runs before the
\* next barrier and belongs to the stage of the last iteration
RECURSIVE UpStages(_, _)
UpStages(d, offset) ==
    IF d = 0 THEN <<>>
    ELSE <<[phase |-> "up", levels |-> <<Level(d, offset)>>, clear |-> (d = 1)]>>
         \o UpStages(d \div 2, offset * 2)

\* the down-sweep loop: offset >>= 1, workgroupBarrier(), then the body
RECURSIVE DownStages(_, _)
DownStages(d, offset) ==
    IF d >= ELEMENTS_PER_BLOCK THEN <<>>
    ELSE <<[phase |-> "down", levels |-> <<Level(d, offset \div 2)>>, clear |-> FALSE]>>
         \o DownStages(d * 2, offset \div 2)

\* the stretches of scan_blocks and of scan_angles between barriers: the load,
\* the sweep stages, and the write of the results after the last barrier
BarrierStages ==
    <<[phase |-> "load", levels |-> <<>>, clear |-> FALSE]>>
    \o UpStages(WORKGROUP_SIZE, 1)
    \o DownStages(1, ELEMENTS_PER_BLOCK)
    \o <<[phase |-> "store", levels |-> <<>>, clear |-> FALSE]>>

\* the elements of the shared array thread tid reads and writes in a stage;
\* readsTotal: thread 0 reads the last element before clearing it (scan_blocks
\* does, for block_sums; scan_angles only clears it)
ThreadAccess(stage, tid, readsTotal) ==
    LET active == {i \in 1..Len(stage.levels) : tid < stage.levels[i].d}
        ai_idx(i) == stage.levels[i].offset * (2 * tid + 1) - 1
        bi_idx(i) == stage.levels[i].offset * (2 * tid + 2) - 1
        own == {tid, tid + WORKGROUP_SIZE}
        last == IF stage.clear /\ tid = 0 THEN {ELEMENTS_PER_BLOCK - 1} ELSE {}
        swept == UNION {{ai_idx(i), bi_idx(i)} : i \in active}
    IN  CASE stage.phase = "load" -> [reads |-> {}, writes |-> own]
          [] stage.phase = "store" -> [reads |-> own, writes |-> {}]
          [] stage.phase = "up" ->
                [reads |-> swept \cup (IF readsTotal THEN last ELSE {}),
                 writes |-> {bi_idx(i) : i \in active} \cup last]
          [] stage.phase = "down" -> [reads |-> swept, writes |-> swept]

\* no element is written by one thread and read or written by another one
\* between two barriers
RaceFree(stages, readsTotal) ==
    \A s \in 1..Len(stages) :
        LET acc == Eager([t \in 0..(WORKGROUP_SIZE - 1) |->
                             ThreadAccess(stages[s], t, readsTotal)])
        IN  \A t, u \in 0..(WORKGROUP_SIZE - 1) :
                t # u => acc[t].writes \cap (acc[u].reads \cup acc[u].writes) = {}

\* scan_blocks, whose thread 0 reads the block total before clearing it
ScanBlocksRaceFree == RaceFree(BarrierStages, TRUE)

\* scan_angles, whose thread 0 only clears the last element
ScanAnglesRaceFree == RaceFree(BarrierStages, FALSE)

\* scan_blocks, every work-group of the dispatch (entry b + 1 is work-group b)
RECURSIVE ScanBlocksFrom(_, _, _, _)
ScanBlocksFrom(params, input, b, wg) ==
    IF b >= wg THEN <<>>
    ELSE <<ScanBlock(input, params[1], b)>> \o ScanBlocksFrom(params, input, b + 1, wg)

ScanBlocks(params, input, wg) == ScanBlocksFrom(params, input, 0, wg)

\* scan_blocks: the words stored into output
scan_blocks_output(params, blocks, output, wg) ==
    BufStore(output,
             [g \in {i \in 0..(wg * ELEMENTS_PER_BLOCK - 1) : i < params[1]} |->
                 blocks[(g \div ELEMENTS_PER_BLOCK) + 1].scanned[g % ELEMENTS_PER_BLOCK]])

\* scan_blocks: block_sums[wg_id.x] = block total
scan_blocks_sums(blocks, sums, wg) ==
    BufStore(sums, [b \in 0..(wg - 1) |-> blocks[b + 1].sum])

\* add_block_sums: output[idx] += block_sums[wg_id.x], wg_id.x = idx / 256,
\* skipping work-group 0
add_block_sums(params, output, sums, wg) ==
    BufStore(output,
             [i \in {j \in Invocations(wg, params[1]) : j \div WORKGROUP_SIZE # 0} |->
                 BufRead(output, i) + BufRead(sums, i \div WORKGROUP_SIZE)])

\* derive kernel: the output indices invocation i stores to
DeriveRange(params, input, prefix, rulesBuf, i) ==
    LET rule_idx == find_rule(rulesBuf, BufRead(input, i), 0, params[2])
        n == IF rule_idx >= 0 THEN RuleAt(rulesBuf, rule_idx).successor_count ELSE 1
    IN  BufRead(prefix, i)..(BufRead(prefix, i) + n - 1)

\* derive kernel: the word invocation i stores at output index k
DeriveWord(params, input, prefix, rulesBuf, succBuf, i, k) ==
    LET rule_idx == find_rule(rulesBuf, BufRead(input, i), 0, params[2])
    IN  IF rule_idx >= 0
        THEN BufRead(succBuf, RuleAt(rulesBuf, rule_idx).successor_offset
                              + (k - BufRead(prefix, i)))
        ELSE BufRead(input, i)

\* derive kernel, all invocations.  Two invocations storing to one index race;
\* lowFirst says which of them is the last to store.
derive_kernel(params, input, prefix, rulesBuf, succBuf, output, wg, lowFirst) ==
    LET inv == Invocations(wg, params[1])
        range == Eager([i \in inv |-> DeriveRange(params, input, prefix, rulesBuf, i)])
        written == UNION {range[i] : i \in inv}
        writers(k) == {i \in inv : k \in range[i]}
        last(k) == IF lowFirst
                   THEN CHOOSE i \in writers(k) : \A j \in writers(k) : j <= i
                   ELSE CHOOSE i \in writers(k) : \A j \in writers(k) : i <= j
    IN  BufStore(output,
                 [k \in written |->
                     DeriveWord(params, input, prefix, rulesBuf, succBuf, last(k), k)])

(***************************************************************************)
(* Host side of gpu-derive.ts                                              *)
(***************************************************************************)
RECURSIVE DoubleUntil(_, _)
DoubleUntil(newSize, requiredSize) ==
    IF newSize < requiredSize THEN DoubleUntil(newSize * 2, requiredSize) ELSE newSize

\* ensureBufferSize of gpu-derive.ts: the new ctx.currentBufferSize
DeriveEnsureBufferSize(currentBufferSize, requiredSize) ==
    IF requiredSize <= currentBufferSize THEN currentBufferSize
    ELSE Min(DoubleUntil(currentBufferSize, requiredSize), MAX_SYMBOLS)

\* Math.min(axiom.length * Math.pow(2, generations), MAX_SYMBOLS)
RECURSIVE EstimatedSizeCapped(_, _)
EstimatedSizeCapped(axiomLength, g) ==
    IF g = 0 THEN Min(axiomLength, MAX_SYMBOLS)
    ELSE Min(2 * EstimatedSizeCapped(axiomLength, g - 1), MAX_SYMBOLS)

\* what deriveOneGeneration returns: Math.floor(inputCount * avgExpansion)
EstimatedOutputCount(inputCount) == (3 * inputCount) \div 2

\* deriveGPU: the count carried to the next generation
NextCount(outputCount, currentBufferSize) ==
    IF outputCount > currentBufferSize THEN currentBufferSize ELSE outputCount

Cmd(o, s, d, m, w, v) == [op |-> o, src |-> s, dst |-> d, sums |-> m, wg |-> w, data |-> v]

WriteParams(v) == Cmd("writeParams", "-", "-", "-", 0, v)

\* deriveOneGeneration: the queue operations in the order they are issued.
\* queue.writeBuffer takes effect in queue order at the call, the passes when
\* the command buffer is submitted at the end.  The data field of a pass holds
\* the parameters written just before the pass was encoded.
GenerationCommands(inputCount, ruleCount, inputBuffer, outputBuffer) ==
    LET numBlocks == CeilDiv(inputCount, ELEMENTS_PER_BLOCK)
        countsParams == <<inputCount, ruleCount, 0, 0>>
        scanParams == <<inputCount, 0, 0, 0>>
        blockScanParams == <<numBlocks, 0, 0, 0>>
        deriveParams == <<inputCount, ruleCount, MAX_SUCCESSORS, 0>>
        writes == <<WriteParams(countsParams), WriteParams(scanParams)>>
                  \o (IF numBlocks > 1
                      THEN <<WriteParams(blockScanParams), WriteParams(scanParams)>>
                      ELSE <<>>)
                  \o <<WriteParams(deriveParams)>>
        passes == <<Cmd("compute_counts", inputBuffer, "counts", "-",
                        CeilDiv(inputCount, WORKGROUP_SIZE), countsParams),
                    Cmd("scan_blocks", "counts", "prefixSums", "blockSums", numBlocks,
                        scanParams)>>
                  \o (IF numBlocks > 1
                      THEN <<Cmd("scan_blocks", "blockSums", "blockSumsScanned",
                                 "blockSums", 1, blockScanParams),
                             Cmd("add_block_sums", "-", "prefixSums", "blockSumsScanned",
                                 numBlocks, scanParams)>>
                      ELSE <<>>)
                  \o <<Cmd("derive", inputBuffer, outputBuffer, "-",
                           CeilDiv(inputCount, WORKGROUP_SIZE), deriveParams)>>
    IN  writes \o passes

BufferNames ==
    {"symbolA", "symbolB", "counts", "prefixSums", "blockSums", "blockSumsScanned",
     "readback"}

FreshBuffers == [n \in BufferNames |-> <<>>]

\* the result of deriveGPU
NoResult == [kind |-> "none", symbols |-> <<>>]

\* readSymbols: symbols[i] = { id: String.fromCharCode(data[i]) }
ReadSymbols(data, count) == [i \in 1..count |-> Sym(FromCharCode(BufRead(data, i - 1)))]

(***************************************************************************)
(* Turtle interpretation: numbers.                                         *)
(*                                                                         *)
(* A heading is kept in degrees (the ideal value) together with prec, the  *)
(* coarsest precision it has been rounded to: "f64" for the result of      *)
(* double arithmetic only, "f32" once it has been a single.  The headings  *)
(* of the runs are multiples of 90 degrees; of the doubles k * PI / 2 only *)
(* 0 is a single, so a store into a Float32Array changes every other       *)
(* heading.  Coordinates are kept as the ideal lattice values: the model   *)
(* does not follow the rounding of coordinates.  nan is the set of the     *)
(* state's fields that hold undefined or NaN; such a field is kept as 0.   *)
(***************************************************************************)
StackCapacity == 256

DefaultStepSize == 10

InitialAngle == 90

\* x + cos(angle) * step, y + sin(angle) * step
Forward(t, step) ==
    LET nanX == "x" \in t.nan \/ "angle" \in t.nan
        nanY == "y" \in t.nan \/ "angle" \in t.nan
        \* Math.cos and Math.sin (cos and sin in WGSL) of a multiple of 90 degrees
        cos == CASE t.angle % 360 = 0 -> 1
                 [] t.angle % 360 = 90 -> 0
                 [] t.angle % 360 = 180 -> 0 - 1
                 [] t.angle % 360 = 270 -> 0
        sin == CASE t.angle % 360 = 0 -> 0
                 [] t.angle % 360 = 90 -> 1
                 [] t.angle % 360 = 180 -> 0
                 [] t.angle % 360 = 270 -> 0 - 1
    IN  [t EXCEPT !.x = IF nanX THEN 0 ELSE @ + cos * step,
                  !.y = IF nanY THEN 0 ELSE @ + sin * step,
                  !.nan = @ \cup (IF "angle" \in @ THEN {"x", "y"} ELSE {})]

\* angle += degrees
Turn(t, degrees) ==
    [t EXCEPT !.angle = IF "angle" \in t.nan THEN 0 ELSE @ + degrees]

\* depth++ and a new branchId
Descend(t, branchId) ==
    [t EXCEPT !.depth = IF "depth" \in t.nan THEN 0 ELSE @ + 1,
              !.branchId = branchId,
              !.nan = @ \ {"branchId"}]

\* the segment drawn by moving from t to t2
Segment(t, t2) ==
    [start |-> <<t.x, t.y>>, end |-> <<t2.x, t2.y>>, depth |-> t.depth,
     branchId |-> t.branchId, nan |-> t2.nan]

\* LineSegment without its colour
LineSegment(start, end, depth, branchId) ==
    [start |-> start, end |-> end, depth |-> depth, branchId |-> branchId]

\* stack[i] = entry (0-based slot i); the slots written so far are kept
WriteSlot(stack, i, entry) ==
    IF i >= 0 /\ i < Len(stack) THEN [stack EXCEPT ![i + 1] = entry]
    ELSE IF i = Len(stack) THEN Append(stack, entry)
    ELSE stack

\* the state of one interpretation: the loop's local variables, the turtle
\* at the origin and pointing up
NewRun(prec) ==
    [turtle |-> [x |-> 0, y |-> 0, angle |-> InitialAngle, prec |-> prec,
                 depth |-> 0, branchId |-> 0, nan |-> {}],
     stack |-> <<>>, stackTop |-> 0, nextBranchId |-> 1, segments |-> <<>>,
     threw |-> FALSE]

(***************************************************************************)
(* interpretSymbols (cpu-turtle.ts): one iteration of the loop             *)
(***************************************************************************)
\* mutant: the pop is not guarded
CpuCanPop_Always(stackTop) == TRUE

\* if (stackTop > 0)
CpuCanPop(stackTop) == stackTop > 0

CpuStep(r, symbol, angleDeg) ==
    LET cmd == symbol.id
        t == r.turtle
    IN  CASE cmd \in {"F", "G"} ->
                LET t2 == Forward(t, DefaultStepSize)
                IN  [r EXCEPT !.segments = Append(@, Segment(t, t2)), !.turtle = t2]
          [] cmd \in {"f", "g"} -> [r EXCEPT !.turtle = Forward(t, DefaultStepSize)]
          [] cmd = "+" -> [r EXCEPT !.turtle = Turn(t, angleDeg)]
          [] cmd = "-" -> [r EXCEPT !.turtle = Turn(t, 0 - angleDeg)]
          [] cmd = "[" ->
                [r EXCEPT !.stack = WriteSlot(@, r.stackTop, t),
                          !.stackTop = @ + 1,
                          !.turtle = Descend(t, r.nextBranchId),
                          !.nextBranchId = @ + 1]
          [] cmd = "]" ->
                IF ~CpuCanPop(r.stackTop) THEN r
                ELSE IF r.stackTop >= 1 /\ r.stackTop <= Len(r.stack)
                THEN [r EXCEPT !.stackTop = @ - 1, !.turtle = r.stack[r.stackTop]]
                ELSE \* restored is undefined: restored.x throws a TypeError
                     [r EXCEPT !.stackTop = @ - 1, !.threw = TRUE]
          [] cmd = "|" -> [r EXCEPT !.turtle = Turn(t, 180)]
          [] OTHER -> r

\* the loop of interpretSymbols over symbols[lo..hi]
RECURSIVE CpuRun(_, _, _, _, _)
CpuRun(r, symbols, lo, hi, angleDeg) ==
    IF lo > hi \/ r.threw THEN r
    ELSE IF lo = hi THEN CpuStep(r, symbols[lo], angleDeg)
    ELSE LET mid == (lo + hi) \div 2
         IN  CpuRun(CpuRun(r, symbols, lo, mid, angleDeg), symbols, mid + 1, hi, angleDeg)

\* the segments array interpretSymbols returns
LineSegments(segments) ==
    [k \in 1..Len(segments) |->
        LineSegment(segments[k].start, segments[k].end, segments[k].depth,
                    segments[k].branchId)]

\* interpretSymbols as a function of its arguments
interpretSymbols(symbols, angleDeg) ==
    LineSegments(CpuRun(NewRun("f64"), symbols, 1, Len(symbols), angleDeg).segments)

(***************************************************************************)
(* interpretFast (fast-turtle.ts): one iteration of the loop               *)
(***************************************************************************)
\* what the typed arrays of the stack hold after stackX[stackTop] = x, ...: a
\* Float32Array rounds the heading to a single (Math.fround), a Uint16Array
\* keeps the depth modulo 2^16
FastStored(t) ==
    [t EXCEPT !.prec = IF t.prec = "f64" /\ t.angle # 0 THEN "f32" ELSE t.prec,
              !.depth = IF "depth" \in t.nan THEN 0 ELSE @ % 65536,
              !.branchId = IF "branchId" \in t.nan THEN 0 ELSE @,
              !.nan = @ \cap {"x", "y", "angle"}]

FastStep(r, symbol, angleDeg) ==
    LET cmd == symbol.id
        t == r.turtle
        hasParam == Len(symbol.params) > 0
        step == IF hasParam THEN symbol.params[1] ELSE DefaultStepSize
        turnAngle == IF hasParam THEN symbol.params[1] ELSE angleDeg
    IN  CASE cmd \in {"F", "G", "A", "B"} ->
                LET t2 == Forward(t, step)
                IN  [r EXCEPT !.segments = Append(@, Segment(t, t2)), !.turtle = t2]
          [] cmd \in {"f", "g"} -> [r EXCEPT !.turtle = Forward(t, step)]
          [] cmd = "+" -> [r EXCEPT !.turtle = Turn(t, turnAngle)]
          [] cmd = "-" -> [r EXCEPT !.turtle = Turn(t, 0 - turnAngle)]
          [] cmd = "[" ->
                \* a store past the end of a typed array is dropped
                [r EXCEPT !.stack = IF r.stackTop < StackCapacity
                                    THEN WriteSlot(@, r.stackTop, FastStored(t))
                                    ELSE @,
                          !.stackTop = @ + 1,
                          !.turtle = Descend(t, r.nextBranchId),
                          !.nextBranchId = @ + 1]
          [] cmd = "]" ->
                IF ~(r.stackTop > 0) THEN r
                ELSE IF r.stackTop >= 1 /\ r.stackTop <= Len(r.stack)
                THEN [r EXCEPT !.stackTop = @ - 1, !.turtle = r.stack[r.stackTop]]
                ELSE \* a read past the end of a typed array is undefined
                     [r EXCEPT !.stackTop = @ - 1,
                               !.turtle = [x |-> 0, y |-> 0, angle |-> 0, prec |-> "f32",
                                           depth |-> 0, branchId |-> 0,
                                           nan |-> {"x", "y", "angle", "depth",
                                                    "branchId"}]]
          [] cmd = "|" -> [r EXCEPT !.turtle = Turn(t, 180)]
          [] OTHER -> r

\* minX, maxX, minY, maxY over the segments drawn
Frame(segments) ==
    LET xs == {segments[k].start[1] : k \in 1..Len(segments)}
              \cup {segments[k].end[1] : k \in 1..Len(segments)}
        ys == {segments[k].start[2] : k \in 1..Len(segments)}
              \cup {segments[k].end[2] : k \in 1..Len(segments)}
    IN  [minX |-> CHOOSE v \in xs : \A w \in xs : v <= w,
         maxX |-> CHOOSE v \in xs : \A w \in xs : v >= w,
         minY |-> CHOOSE v \in ys : \A w \in ys : v <= w,
         maxY |-> CHOOSE v \in ys : \A w \in ys : v >= w]

(***************************************************************************)
(* generate_segments_serial (turtle-transform.wgsl): one iteration of the  *)
(* loop.  The state is f32 and u32; there is no branch id.  An index past  *)
(* the end of a stack array is out of bounds: oob is what the              *)
(* implementation makes of it, -1 for a store that is dropped or a load    *)
(* that yields zero, k >= 0 for the access landing in slot k.              *)
(***************************************************************************)
\* a slot no store has reached holds zeros
ZeroTurtle ==
    [x |-> 0, y |-> 0, angle |-> 0, prec |-> "f32", depth |-> 0, branchId |-> 0,
     nan |-> {}]

\* the slots after a store of entry into slot i, earlier slots zero-filled
StoreSlot(stack, i, entry) ==
    IF i < 0 THEN stack
    ELSE [k \in 1..Max(Len(stack), i + 1) |->
            IF k = i + 1 THEN entry
            ELSE IF k <= Len(stack) THEN stack[k]
            ELSE ZeroTurtle]

GpuStep(r, sym, angleDeg, stepSize, oob) ==
    LET t == r.turtle
    IN  CASE sym \in {70, 71} ->
                LET t2 == Forward(t, stepSize)
                IN  [r EXCEPT !.segments = Append(@, Segment(t, t2)), !.turtle = t2]
          [] sym \in {102, 103} -> [r EXCEPT !.turtle = Forward(t, stepSize)]
          [] sym = 43 -> [r EXCEPT !.turtle = Turn(t, angleDeg)]
          [] sym = 45 -> [r EXCEPT !.turtle = Turn(t, 0 - angleDeg)]
          [] sym = 124 -> [r EXCEPT !.turtle = Turn(t, 180)]
          [] sym = 91 ->
                [r EXCEPT !.stack = StoreSlot(@, oob, t),
                          !.stackTop = @ + 1,
                          !.turtle = [t EXCEPT !.depth = @ + 1]]
          [] sym = 93 ->
                IF ~(r.stackTop > 0) THEN r
                ELSE [r EXCEPT !.stackTop = @ - 1,
                               !.turtle = IF oob >= 0 /\ oob < Len(r.stack)
                                          THEN r.stack[oob + 1]
                                          ELSE ZeroTurtle]
          [] OTHER -> r

\* the outcomes of the stack access the iteration on sym makes
GpuOutcomes(r, sym) ==
    LET Access(i) == IF i < StackCapacity THEN {i} ELSE (0 - 1)..(StackCapacity - 1)
    IN  CASE sym = 91 -> Access(r.stackTop)
          [] sym = 93 /\ r.stackTop > 0 -> Access(r.stackTop - 1)
          [] OTHER -> {0}

(***************************************************************************)
(* interpretSymbolsGPU (gpu-turtle.ts): conversions of the host            *)
(***************************************************************************)
\* Math.round(segmentData[offset + 4]): the u32 depth the kernel stored, read
\* through a Float32Array.  A bit pattern below 0x3F000000 is a float below
\* 0.5 (a depth below 2^23 is a subnormal), which Math.round takes to 0.
\* The conversion builds the LineSegment array with that depth and branchId 0.
ConvertSegments(segments, segmentCount) ==
    [k \in 1..segmentCount |->
        LineSegment(segments[k].start, segments[k].end,
                    CASE segments[k].depth < 1056964608 -> 0, 0)]

NoFrame == [minX |-> 0, maxX |-> 0, minY |-> 0, maxY |-> 0]

\* what an interpreter returned
TurtleResult(kind, segments, frame) ==
    [kind |-> kind, segments |-> segments, frame |-> frame]

\* the bookkeeping of the brackets met so far: whether the last symbol was a
\* "]" with a matching "[", and the state the turtle had before that "["
NotClosed == [matched |-> FALSE, before |-> ZeroTurtle]

(***************************************************************************)
(* State                                                                   *)
(***************************************************************************)
VARIABLES
    grammar,        \* the Grammar of the run
    generations,    \* the requested generation count
    symbols,        \* deriveN: the current sequence
    gen,            \* deriveN: generations applied so far
    idx,            \* derive: index (1-based) of the next input symbol
    result,         \* derive: output built so far in this generation
    pc,             \* deriveN: "derive" inside a generation, "loop" between, "done"
    axiomLength,    \* deriveGPU: axiom.length
    tracked,        \* TRUE when the sequences of the run are small enough to be
                    \* kept word by word; otherwise only their lengths are kept
    ctx,            \* GPUDerivationContext: currentBufferSize, ruleCount, isReady
    rulesBuffer,    \* device: rule table
    successorsBuffer, \* device: flat successor ids
    bufs,           \* device: symbol, counts, scan and readback buffers
    paramsBuffer,   \* device: the uniform parameter buffer
    queue,          \* device queue: operations issued and not yet executed
    gpuPc,          \* deriveGPU: "idle", "ready", "loop", "awaitMap", "done"
    gpuGen,         \* deriveGPU: gen
    currentCount,   \* deriveGPU: currentCount
    inputBuffer,    \* deriveGPU: name of the current input buffer
    outputBuffer,   \* deriveGPU: name of the current output buffer
    gpuResult,      \* what deriveGPU returned
    input,          \* turtle: the symbol sequence to interpret
    turnAngle,      \* turtle: the turn angle, in degrees
    interp,         \* turtle: the interpreter called: "cpu", "fast" or "gpu"
    ti,             \* turtle: index (1-based) of the next symbol
    run,            \* turtle: the loop's locals (turtle, stack, stackTop, ...)
    tpc,            \* turtle: "idle", "call", "run", "kernel", "awaitSegments", "done"
    turtleResult,   \* turtle: what the interpreter returned
    tctx,           \* GPUTurtleContext: currentBufferSize, isReady
    uploaded,       \* device: the symbols and parameters interpretSymbolsGPU wrote
    opens,          \* the turtle states before the "[" not yet closed
    closed,         \* whether the last symbol closed a "[", and the state before it
    lsystemParams,  \* store: axiom (its length), rules, iterations, angle
    visualState,    \* store: colorMode, hueOffset, ..., spectrum, spectrumPreset
    cached,         \* store: cachedSymbols, cachedGrammarStr, cachedIterations,
                    \*        cachedSegments, cachedAngle, the cached colour
                    \*        settings and the cachedVertex variables
    engineState,    \* store: gpuAvailable, gpuTurtleActive
    gpuTurtleCtx,   \* store: the GPUTurtleContext and the map state of its buffers
    device,         \* the GPU device: lost or not, buffer contents, pending maps
    requests,       \* the calls of computeSegmentsAsync under way
    text,           \* parseGrammar: the input, a sequence of characters
    tokens,         \* parseGrammar: tokenize(input)
    parse,          \* parseGrammar: i (1-based), axiom, rules, parametricRules
    parsePc,        \* parseGrammar: "idle", "call", "lines", "done"
    parseResult,    \* what parseGrammar returned: a Grammar or a ParseError
    reparse,        \* whether text is serializeGrammar of a Grammar, and that Grammar
    maxSymbols,     \* calculateSafeGenerations: the ceiling
    safeGenerations, \* what calculateSafeGenerations returned (0: not called)
    gpuFailed,      \* a request has ended in the catch block
    sharedUse,      \* the last use of the context's buffers: by which request,
                    \* and which other requests were waiting on a map then
    events          \* how many user inputs and compute calls so far, and what the last
                    \* of regenerate, computeSegments and computeVertexBuffer did

seqVars == <<symbols, gen, idx, result, pc>>

inputVars == <<grammar, generations>>

gpuVars ==
    <<axiomLength, tracked, ctx, rulesBuffer, successorsBuffer, bufs, paramsBuffer,
      queue, gpuPc, gpuGen, currentCount, inputBuffer, outputBuffer, gpuResult>>

turtleVars ==
    <<input, turnAngle, interp, ti, run, tpc, turtleResult, tctx, uploaded, opens, closed>>

storeVars ==
    <<lsystemParams, visualState, cached, engineState, gpuTurtleCtx, device, requests, gpuFailed,
      sharedUse, events>>

parserVars == <<text, tokens, parse, parsePc, parseResult, reparse>>

safeVars == <<maxSymbols, safeGenerations>>

vars == <<inputVars, seqVars, gpuVars, turtleVars, storeVars, parserVars, safeVars>>

(***************************************************************************)
(* deriveN, one loop-body execution of derive per step                     *)
(***************************************************************************)
SeqStart ==
    /\ symbols = grammar.axiom
    /\ gen = 0
    /\ idx = 1
    /\ result = <<>>
    /\ pc = "loop"

SeqIdle ==
    /\ symbols = <<>>
    /\ gen = 0
    /\ idx = 1
    /\ result = <<>>
    /\ pc = "idle"

\* for (let i = 0; i < generations; i++) symbols = derive(...)
DeriveBegin ==
    /\ pc = "loop"
    /\ gen < generations
    /\ Len(symbols) <= MaxSymbols \/ IsDeterministicD0L(grammar)
    /\ pc' = "derive"
    /\ idx' = 1
    /\ result' = <<>>
    /\ UNCHANGED <<inputVars, parserVars, safeVars, turtleVars, storeVars, gpuVars, symbols, gen>>

\* one iteration of the loop over the input symbols
DeriveStep ==
    /\ pc = "derive"
    /\ idx <= Len(symbols)
    /\ \E rand \in SymbolDraws(symbols[idx], grammar.rules, grammar.parametricRules) :
          result' = result \o DeriveSymbol(symbols[idx], grammar.rules,
                                           grammar.parametricRules, rand)
    /\ idx' = idx + 1
    /\ UNCHANGED <<inputVars, parserVars, safeVars, turtleVars, storeVars, gpuVars, symbols, gen, pc>>

\* return result
DeriveEnd ==
    /\ pc = "derive"
    /\ idx > Len(symbols)
    /\ symbols' = result
    /\ gen' = gen + 1
    /\ pc' = "loop"
    /\ UNCHANGED <<inputVars, parserVars, safeVars, turtleVars, storeVars, gpuVars, idx, result>>

\* return symbols
DeriveNReturn ==
    /\ pc = "loop"
    /\ gen = generations
    /\ pc' = "done"
    /\ UNCHANGED <<inputVars, parserVars, safeVars, turtleVars, storeVars, gpuVars, symbols, gen, idx, result>>

SeqNext == DeriveBegin \/ DeriveStep \/ DeriveEnd \/ DeriveNReturn

(***************************************************************************)
(* deriveGPU and the device queue                                          *)
(***************************************************************************)
\* the context initGPUDerivation returns
GpuIdle ==
    /\ ctx = [currentBufferSize |-> InitialBufferSize, ruleCount |-> 0, isReady |-> TRUE]
    /\ rulesBuffer = <<>>
    /\ successorsBuffer = <<>>
    /\ bufs = FreshBuffers
    /\ paramsBuffer = <<0, 0, 0, 0>>
    /\ queue = <<>>
    /\ gpuPc = "idle"
    /\ gpuGen = 0
    /\ currentCount = 0
    /\ inputBuffer = "symbolA"
    /\ outputBuffer = "symbolB"
    /\ gpuResult = NoResult

\* uploadRules(ctx, grammar.rules)
UploadRules ==
    /\ gpuPc = "idle"
    /\ rulesBuffer' = RuleData(grammar.rules, 1, 0)
    /\ successorsBuffer' = ClipSuccessors(SuccessorData(grammar.rules, 1))
    /\ ctx' = [ctx EXCEPT !.ruleCount = Len(grammar.rules)]
    /\ gpuPc' = "ready"
    /\ UNCHANGED <<inputVars, parserVars, safeVars, turtleVars, storeVars, seqVars, axiomLength, tracked, bufs, paramsBuffer, queue,
                   gpuGen, currentCount, inputBuffer, outputBuffer, gpuResult>>

\* deriveGPU returns the axiom itself: context not ready, empty axiom or 0 generations
DeriveGPUReturnAxiom ==
    /\ gpuPc = "ready"
    /\ ~ctx.isReady \/ axiomLength = 0 \/ generations = 0
    /\ gpuResult' = [kind |-> "axiom", symbols |-> IF tracked THEN grammar.axiom ELSE <<>>]
    /\ currentCount' = axiomLength
    /\ gpuPc' = "done"
    /\ UNCHANGED <<inputVars, parserVars, safeVars, turtleVars, storeVars, seqVars, axiomLength, tracked, ctx, rulesBuffer,
                   successorsBuffer, bufs, paramsBuffer, queue, gpuGen, inputBuffer,
                   outputBuffer>>

\* deriveGPU returns null: the caller is to use the CPU
DeriveGPUReturnNull ==
    /\ gpuPc = "ready"
    /\ ctx.isReady /\ axiomLength # 0 /\ generations # 0
    /\ axiomLength < GPU_THRESHOLD /\ generations <= 3
    /\ gpuResult' = [kind |-> "null", symbols |-> <<>>]
    /\ gpuPc' = "done"
    /\ UNCHANGED <<inputVars, parserVars, safeVars, turtleVars, storeVars, seqVars, axiomLength, tracked, ctx, rulesBuffer,
                   successorsBuffer, bufs, paramsBuffer, queue, gpuGen, currentCount,
                   inputBuffer, outputBuffer>>

\* deriveGPU up to the loop: ensureBufferSize, upload of the axiom into buffer A
DeriveGPUStart ==
    /\ gpuPc = "ready"
    /\ ctx.isReady /\ axiomLength # 0 /\ generations # 0
    /\ ~(axiomLength < GPU_THRESHOLD /\ generations <= 3)
    /\ LET newSize == DeriveEnsureBufferSize(ctx.currentBufferSize,
                                             EstimatedSizeCapped(axiomLength, generations))
       IN  /\ ctx' = [ctx EXCEPT !.currentBufferSize = newSize]
           /\ bufs' = IF newSize # ctx.currentBufferSize THEN FreshBuffers ELSE bufs
    /\ queue' = Append(queue,
                       Cmd("writeBuffer", "-", "symbolA", "-", 0,
                           IF tracked
                           THEN [i \in 1..axiomLength |-> CharCodeAt(grammar.axiom[i].id)]
                           ELSE <<>>))
    /\ inputBuffer' = "symbolA"
    /\ outputBuffer' = "symbolB"
    /\ currentCount' = axiomLength
    /\ gpuGen' = 0
    /\ gpuPc' = "loop"
    /\ UNCHANGED <<inputVars, parserVars, safeVars, turtleVars, storeVars, seqVars, axiomLength, tracked, rulesBuffer,
                   successorsBuffer, paramsBuffer, gpuResult>>

\* one iteration of the generation loop: deriveOneGeneration issues its queue
\* operations and returns its estimate; the count is capped; the buffers swap
DeriveGPUGeneration ==
    /\ gpuPc = "loop"
    /\ gpuGen < generations
    /\ queue' = queue \o GenerationCommands(currentCount, ctx.ruleCount,
                                            inputBuffer, outputBuffer)
    /\ currentCount' = NextCount(EstimatedOutputCount(currentCount), ctx.currentBufferSize)
    /\ inputBuffer' = outputBuffer
    /\ outputBuffer' = inputBuffer
    /\ gpuGen' = gpuGen + 1
    /\ UNCHANGED <<inputVars, parserVars, safeVars, turtleVars, storeVars, seqVars, axiomLength, tracked, ctx, rulesBuffer,
                   successorsBuffer, bufs, paramsBuffer, gpuPc, gpuResult>>

\* readSymbols up to the await: copy of count words into the staging buffer
DeriveGPURead ==
    /\ gpuPc = "loop"
    /\ gpuGen = generations
    /\ queue' = Append(queue, Cmd("copy", inputBuffer, "readback", "-", currentCount, <<>>))
    /\ gpuPc' = "awaitMap"
    /\ UNCHANGED <<inputVars, parserVars, safeVars, turtleVars, storeVars, seqVars, axiomLength, tracked, ctx, rulesBuffer,
                   successorsBuffer, bufs, paramsBuffer, gpuGen, currentCount,
                   inputBuffer, outputBuffer, gpuResult>>

\* mapAsync resolves once the queue has drained; readSymbols builds the result
DeriveGPUMapped ==
    /\ gpuPc = "awaitMap"
    /\ queue = <<>>
    /\ gpuResult' = [kind |-> "symbols",
                     symbols |-> IF tracked THEN ReadSymbols(bufs["readback"], currentCount)
                                 ELSE <<>>]
    /\ gpuPc' = "done"
    /\ UNCHANGED <<inputVars, parserVars, safeVars, turtleVars, storeVars, seqVars, axiomLength, tracked, ctx, rulesBuffer,
                   successorsBuffer, bufs, paramsBuffer, queue, gpuGen, currentCount,
                   inputBuffer, outputBuffer>>

\* the buffers after the device has executed command c
Executed(c, lowFirst) ==
    CASE c.op = "writeBuffer" ->
            [bufs EXCEPT ![c.dst] = BufStore(@, [i \in 0..(Len(c.data) - 1) |-> c.data[i + 1]])]
      [] c.op = "compute_counts" ->
            [bufs EXCEPT ![c.dst] = compute_counts(paramsBuffer, bufs[c.src], rulesBuffer,
                                                   @, c.wg)]
      [] c.op = "scan_blocks" ->
            LET blocks == ScanBlocks(paramsBuffer, bufs[c.src], c.wg)
                out == scan_blocks_output(paramsBuffer, blocks, bufs[c.dst], c.wg)
                sums == scan_blocks_sums(blocks, bufs[c.sums], c.wg)
            IN  [[bufs EXCEPT ![c.dst] = out] EXCEPT ![c.sums] = sums]
      [] c.op = "add_block_sums" ->
            [bufs EXCEPT ![c.dst] = add_block_sums(paramsBuffer, @, bufs[c.sums], c.wg)]
      [] c.op = "derive" ->
            [bufs EXCEPT ![c.dst] = derive_kernel(paramsBuffer, bufs[c.src],
                                                  bufs["prefixSums"], rulesBuffer,
                                                  successorsBuffer, @, c.wg, lowFirst)]
      [] c.op = "copy" ->
            [bufs EXCEPT ![c.dst] = BufStore(@, [i \in 0..(c.wg - 1) |-> BufRead(bufs[c.src], i)])]
      [] OTHER -> bufs

\* the device executes the operation at the head of the queue
DeviceExec ==
    /\ queue # <<>>
    /\ queue' = Tail(queue)
    /\ paramsBuffer' = IF Head(queue).op = "writeParams" THEN Head(queue).data
                       ELSE paramsBuffer
    /\ \E lowFirst \in (IF tracked /\ Head(queue).op = "derive" THEN BOOLEAN ELSE {TRUE}) :
          bufs' = IF tracked THEN Executed(Head(queue), lowFirst) ELSE bufs
    /\ UNCHANGED <<inputVars, parserVars, safeVars, turtleVars, storeVars, seqVars, axiomLength, tracked, ctx, rulesBuffer,
                   successorsBuffer, gpuPc, gpuGen, currentCount, inputBuffer,
                   outputBuffer, gpuResult>>

GpuNext ==
    \/ UploadRules
    \/ DeriveGPUReturnAxiom
    \/ DeriveGPUReturnNull
    \/ DeriveGPUStart
    \/ DeriveGPUGeneration
    \/ DeriveGPURead
    \/ DeriveGPUMapped
    \/ DeviceExec

(***************************************************************************)
(* Turtle interpretation, one loop iteration per step                      *)
(***************************************************************************)
TURTLE_MAX_SYMBOLS == 4000000

MAX_SEGMENTS == 2000000

TurtleInitialSize == 65536

\* ensureBufferSize of gpu-turtle.ts: the new ctx.currentBufferSize
TurtleEnsureBufferSize(currentBufferSize, symbolCount) ==
    IF symbolCount <= currentBufferSize THEN currentBufferSize
    ELSE Min(DoubleUntil(currentBufferSize, symbolCount), TURTLE_MAX_SYMBOLS)

\* no interpretation is under way
TurtleIdle ==
    /\ input = <<>>
    /\ turnAngle = InitialAngle
    /\ interp = "none"
    /\ ti = 1
    /\ run = NewRun("f64")
    /\ tpc = "idle"
    /\ turtleResult = TurtleResult("none", <<>>, NoFrame)
    /\ tctx = [currentBufferSize |-> TurtleInitialSize, isReady |-> TRUE]
    /\ uploaded = [symbols |-> <<>>, count |-> 0, angle |-> 0, step |-> 0]
    /\ opens = <<>>
    /\ closed = NotClosed

\* the bracket bookkeeping after the symbol id has been interpreted
BracketsAfter(id) ==
    /\ opens' = IF id = "[" THEN Append(opens, run.turtle)
                ELSE IF id = "]" /\ opens # <<>> THEN SubSeq(opens, 1, Len(opens) - 1)
                ELSE opens
    /\ closed' = IF id = "]" /\ opens # <<>>
                 THEN [matched |-> TRUE, before |-> opens[Len(opens)]]
                 ELSE NotClosed

\* interpretSymbols is entered
InterpretSymbolsCall ==
    /\ tpc = "call" /\ interp = "cpu"
    /\ run' = NewRun("f64")
    /\ ti' = 1
    /\ tpc' = "run"
    /\ UNCHANGED <<inputVars, parserVars, safeVars, seqVars, gpuVars, storeVars, input, turnAngle, interp, turtleResult,
                   tctx, uploaded, opens, closed>>

\* one iteration of the loop of interpretSymbols
InterpretSymbolsStep ==
    /\ tpc = "run" /\ interp = "cpu"
    /\ ti <= Len(input)
    /\ run' = CpuStep(run, input[ti], turnAngle)
    /\ ti' = ti + 1
    /\ tpc' = IF run'.threw THEN "threw" ELSE "run"
    /\ BracketsAfter(input[ti].id)
    /\ UNCHANGED <<inputVars, parserVars, safeVars, seqVars, gpuVars, storeVars, input, turnAngle, interp, turtleResult,
                   tctx, uploaded>>

\* return segments
InterpretSymbolsReturn ==
    /\ tpc = "run" /\ interp = "cpu"
    /\ ti > Len(input)
    /\ turtleResult' = TurtleResult("segments", LineSegments(run.segments), NoFrame)
    /\ tpc' = "done"
    /\ UNCHANGED <<inputVars, parserVars, safeVars, seqVars, gpuVars, storeVars, input, turnAngle, interp, ti, run,
                   tctx, uploaded, opens, closed>>

\* interpretFast is entered: nothing to draw returns []
InterpretFastCall ==
    /\ tpc = "call" /\ interp = "fast"
    /\ run' = NewRun("f64")
    /\ ti' = 1
    /\ IF \/ Len(input) = 0
          \/ \A k \in 1..Len(input) : input[k].id \notin {"F", "G", "A", "B"}
       THEN /\ turtleResult' = TurtleResult("segments", <<>>, NoFrame)
            /\ tpc' = "done"
       ELSE /\ turtleResult' = turtleResult
            /\ tpc' = "run"
    /\ UNCHANGED <<inputVars, parserVars, safeVars, seqVars, gpuVars, storeVars, input, turnAngle, interp, tctx,
                   uploaded, opens, closed>>

\* one iteration of the loop of interpretFast
InterpretFastStep ==
    /\ tpc = "run" /\ interp = "fast"
    /\ ti <= Len(input)
    /\ run' = FastStep(run, input[ti], turnAngle)
    /\ ti' = ti + 1
    /\ BracketsAfter(input[ti].id)
    /\ UNCHANGED <<inputVars, parserVars, safeVars, seqVars, gpuVars, storeVars, input, turnAngle, interp, tpc,
                   turtleResult, tctx, uploaded>>

\* the end of interpretFast: [] for a drawing without extent, otherwise the
\* segments, to be normalised to the frame
InterpretFastReturn ==
    /\ tpc = "run" /\ interp = "fast"
    /\ ti > Len(input)
    /\ LET frame == Frame(run.segments)
           maxDim == Max(frame.maxX - frame.minX, frame.maxY - frame.minY)
       IN  turtleResult' = IF Len(run.segments) = 0 \/ maxDim = 0
                           THEN TurtleResult("segments", <<>>, NoFrame)
                           ELSE TurtleResult("segments", run.segments, frame)
    /\ tpc' = "done"
    /\ UNCHANGED <<inputVars, parserVars, safeVars, seqVars, gpuVars, storeVars, input, turnAngle, interp, ti, run,
                   tctx, uploaded, opens, closed>>

\* interpretSymbolsGPU up to the first await: [] without a ready context or
\* symbols, otherwise buffers ensured, symbols and parameters written, the
\* segment count reset and the kernel submitted
InterpretGPUCall ==
    /\ tpc = "call" /\ interp = "gpu"
    /\ run' = NewRun("f32")
    /\ ti' = 1
    /\ IF ~tctx.isReady \/ Len(input) = 0
       THEN /\ turtleResult' = TurtleResult("segments", <<>>, NoFrame)
            /\ tpc' = "done"
            /\ UNCHANGED <<tctx, uploaded>>
       ELSE /\ tctx' = [tctx EXCEPT !.currentBufferSize =
                                       TurtleEnsureBufferSize(@, Len(input))]
            /\ uploaded' = [symbols |-> [i \in 1..Len(input) |->
                                             CharCodeAt(input[i].id)],
                            count |-> Len(input),
                            angle |-> turnAngle, step |-> DefaultStepSize]
            /\ turtleResult' = turtleResult
            /\ tpc' = "kernel"
    /\ UNCHANGED <<inputVars, parserVars, safeVars, seqVars, gpuVars, storeVars, input, turnAngle, interp, opens, closed>>

\* one iteration of the loop of generate_segments_serial
SegmentsKernelStep ==
    /\ tpc = "kernel" /\ interp = "gpu"
    /\ ti <= uploaded.count
    /\ \E oob \in GpuOutcomes(run, uploaded.symbols[ti]) :
          run' = GpuStep(run, uploaded.symbols[ti], uploaded.angle, uploaded.step, oob)
    /\ ti' = ti + 1
    /\ BracketsAfter(FromCharCode(uploaded.symbols[ti]))
    /\ UNCHANGED <<inputVars, parserVars, safeVars, seqVars, gpuVars, storeVars, input, turnAngle, interp, tpc,
                   turtleResult, tctx, uploaded>>

\* the count read back: [] when the kernel drew nothing
InterpretGPUCount ==
    /\ tpc = "kernel" /\ interp = "gpu"
    /\ ti > uploaded.count
    /\ IF Len(run.segments) = 0
       THEN /\ turtleResult' = TurtleResult("segments", <<>>, NoFrame)
            /\ tpc' = "done"
       ELSE /\ turtleResult' = turtleResult
            /\ tpc' = "awaitSegments"
    /\ UNCHANGED <<inputVars, parserVars, safeVars, seqVars, gpuVars, storeVars, input, turnAngle, interp, ti, run,
                   tctx, uploaded, opens, closed>>

\* the segments read back and converted
InterpretGPUReturn ==
    /\ tpc = "awaitSegments" /\ interp = "gpu"
    /\ turtleResult' = TurtleResult("segments",
                                    ConvertSegments(run.segments, Len(run.segments)),
                                    NoFrame)
    /\ tpc' = "done"
    /\ UNCHANGED <<inputVars, parserVars, safeVars, seqVars, gpuVars, storeVars, input, turnAngle, interp, ti, run,
                   tctx, uploaded, opens, closed>>

TurtleNext ==
    \/ InterpretSymbolsCall
    \/ InterpretSymbolsStep
    \/ InterpretSymbolsReturn
    \/ InterpretFastCall
    \/ InterpretFastStep
    \/ InterpretFastReturn
    \/ InterpretGPUCall
    \/ SegmentsKernelStep
    \/ InterpretGPUCount
    \/ InterpretGPUReturn

(***************************************************************************)
(* The store (lsystem.svelte.ts) and its asynchronous GPU interpretation.  *)
(* Symbol and segment arrays are followed by what they were computed from  *)
(* and how many elements they hold, not element by element: the grammar is *)
(* the axiom F...F with the rule F -> FF, so every symbol draws.           *)
(***************************************************************************)
GPU_TURTLE_THRESHOLD == 5000

SEGMENT_SIZE == 32

\* the default maxSymbols of calculateSafeGenerations
SAFE_MAX_SYMBOLS == 4000000

\* the requests that may be under way at once
Requests == {1, 2}

\* largest iteration count the user sets
MaxIterations == 1

\* most user inputs (parameter changes, regenerate, computeSegments) followed
MaxInputs == 2

\* most calls of computeSegmentsAsync followed
MaxCalls == 3

StoreAxiomLengths == {3000, 3000000}

StoreAngles == {25, 90}

\* the rules field of lsystemParams: F -> FF as typed in the editor, and the
\* rules loadPreset writes for kochCurve and levyCurve
RulesSquare == GrammarSquare.rules

RulesKoch == <<D0L("F", <<"F", "+", "F", "-", "F", "-", "F", "+", "F">>, ProbUnit)>>

RulesLevy == <<D0L("F", <<"+", "F", "-", "-", "F", "+">>, ProbUnit)>>

\* shouldUseGPUTurtle
shouldUseGPUTurtle(symbolCount) == symbolCount > GPU_TURTLE_THRESHOLD

\* estimateGrowthRate: the mean successor length of the D0L rules, 1 without
\* rules; the quotient totalExpansion / ruleCount is kept in lowest terms
estimateGrowthRate(g) ==
    IF Len(g.rules) = 0 THEN [total |-> 1, count |-> 1]
    ELSE LET RECURSIVE TotalExpansion(_)
             TotalExpansion(k) ==
                 IF k = 0 THEN 0 ELSE Len(g.rules[k].successor) + TotalExpansion(k - 1)
             totalExpansion == TotalExpansion(Len(g.rules))
             ruleCount == Len(g.rules)
             d == CHOOSE c \in 1..ruleCount :
                     /\ totalExpansion % c = 0 /\ ruleCount % c = 0
                     /\ \A e \in (c + 1)..ruleCount :
                           ~(totalExpansion % e = 0 /\ ruleCount % e = 0)
         IN  [total |-> totalExpansion \div d, count |-> ruleCount \div d]

\* Math.floor(Math.log(ceiling / len0) / Math.log(growthRate)) for a growth
\* rate above 1, as far as the clamp to 20 can tell: the largest n, up to 21,
\* with len0 * growthRate^n <= ceiling (Infinity for an empty axiom)
RECURSIVE FloorLog(_, _, _, _)
FloorLog(ceiling, len0, growthRate, n) ==
    IF n > 20 \/ len0 * growthRate.total > ceiling * growthRate.count THEN 0
    ELSE 1 + FloorLog(ceiling * growthRate.count, len0 * growthRate.total,
                      growthRate, n + 1)

\* calculateSafeGenerations after growthRate and axiomLength are computed
SafeGenerations(growthRate, len0, ceiling) ==
    IF growthRate.total <= growthRate.count THEN 100
    ELSE Max(1, Min(FloorLog(ceiling, len0, growthRate, 0), 20))

calculateSafeGenerations(g, ceiling) ==
    SafeGenerations(estimateGrowthRate(g), Len(g.axiom), ceiling)

\* getSafeMaxIterations for the grammar of the parameters p
getSafeMaxIterations(p) ==
    SafeGenerations(estimateGrowthRate(Grammar(<<>>, p.rules, <<>>)), p.axiomLength,
                    SAFE_MAX_SYMBOLS)

\* lengths above this are kept as this: no array as long is built
LengthCap == 2^29

\* length of deriveN's result after it generations from f symbols F and o
\* other symbols, when F is the only predecessor and its successor holds a
\* symbols F and b others
RECURSIVE GrownLength(_, _, _, _, _)
GrownLength(f, o, a, b, it) ==
    IF it = 0 THEN Min(f + o, LengthCap)
    ELSE IF f > LengthCap \div (a + b + 1) \/ o > LengthCap \div 2 THEN LengthCap
    ELSE GrownLength(a * f, o + b * f, a, b, it - 1)

\* the syms deriveN returns for the axiom of len F, the rules and it iterations
DerivedSymbols(len, rules, it) ==
    LET d0lRules == RulesFor(rules, "F")
        successor == IF d0lRules # <<>> THEN Ids(d0lRules[1].successor) ELSE <<"F">>
        a == Cardinality({k \in 1..Len(successor) : successor[k] = "F"})
    IN  [axiomLength |-> len, rules |-> rules, iterations |-> it,
         length |-> GrownLength(len, 0, a, Len(successor) - a, it),
         draws |-> GrownLength(len, 0, a, 0, it)]

\* an empty symbol array, or a symbol buffer holding zeros
NoSymbols ==
    [axiomLength |-> 0, rules |-> <<>>, iterations |-> 0, length |-> 0, draws |-> 0]

\* count segments computed from a symbol array at angle by an interpreter;
\* config is the colouring the interpreter was given, if any
Segments(syms, angle, count, by) ==
    [symbols |-> syms, angle |-> angle, count |-> count, by |-> by,
     normalized |-> FALSE, config |-> "none"]

\* visualState as the module creates it; saturation and lightness in tenths
DefaultVisual ==
    [colorMode |-> "depth", lineColor |-> "#4ade80", hueOffset |-> 0, is3D |-> FALSE,
     saturation |-> 7, lightness |-> 5, spectrum |-> "Forest",
     spectrumPreset |-> "Forest", useSpectrum |-> TRUE]

\* the settings the caches compare: colorMode, hueOffset, saturation,
\* lightness, lineColor, useSpectrum and spectrumPreset
VisualKey(v) ==
    [colorMode |-> v.colorMode, hueOffset |-> v.hueOffset, saturation |-> v.saturation,
     lightness |-> v.lightness, lineColor |-> v.lineColor,
     useSpectrum |-> v.useSpectrum, spectrumPreset |-> v.spectrumPreset]

\* the FastTurtleConfig built from the settings v, apart from the angle
FastTurtleConfig(v) ==
    [colorMode |-> v.colorMode, hueOffset |-> v.hueOffset, saturation |-> v.saturation,
     lightness |-> v.lightness, uniformColor |-> v.lineColor,
     useSpectrum |-> v.useSpectrum, spectrum |-> v.spectrum]

\* interpretFast(symbols, config): one normalised, coloured segment per F
interpretFastStore(syms, angle, v) ==
    [Segments(syms, angle, syms.draws, "fast") EXCEPT
        !.normalized = TRUE, !.config = FastTurtleConfig(v)]

\* an empty segment array, or a buffer holding zeros
NoSegments == Segments(NoSymbols, 0, 0, "none")

\* normalizeSegments: segments without extent are returned as they are
normalizeSegments(segments) ==
    IF segments.by \in {"none", "zeros"} THEN segments
    ELSE [segments EXCEPT !.normalized = TRUE]

\* serializeGrammar of the grammar of the parameters p; '' is <<>>
GrammarStr(p) == <<p.axiomLength, p.rules>>

\* deriveSymbols() returns cachedSymbols without calling deriveN
SymbolsCached(c, p) ==
    c.cachedGrammarStr = GrammarStr(p) /\ c.cachedIterations = p.iterations

\* the caches after deriveSymbols(); it returns cachedSymbols of the outcome
DeriveSymbolsStore(c, p) ==
    IF SymbolsCached(c, p)
    THEN c
    ELSE [c EXCEPT !.cachedSymbols = DerivedSymbols(p.axiomLength, p.rules, p.iterations),
                   !.cachedGrammarStr = GrammarStr(p),
                   !.cachedIterations = p.iterations,
                   !.cachedAngle = 0 - 1]

\* the caches after interpretToSegments(syms) under the parameters p and the
\* settings v; it returns cachedSegments of the outcome, or [] for no symbols
SegmentsNeedRecompute(c, p, v) ==
    \/ p.angle # c.cachedAngle
    \/ c.cachedSegments.count = 0
    \/ VisualKey(v) # c.cachedVisual

InterpretToSegmentsStore(c, p, v, syms) ==
    IF syms.length = 0 THEN c
    ELSE IF SegmentsNeedRecompute(c, p, v)
    THEN [c EXCEPT !.cachedSegments = interpretFastStore(syms, p.angle, v),
                   !.cachedAngle = p.angle,
                   !.cachedVisual = VisualKey(v)]
    ELSE c

\* cachedVertexData and the cachedVertex keys; vertexCount 0 stands for null
NoVertex ==
    [vertexData |-> NoSegments, vertexCount |-> 0, symbolCount |-> 0 - 1,
     grammarStr |-> <<>>, iterations |-> 0 - 1, angle |-> 0 - 1,
     visual |-> VisualKey(DefaultVisual)]

\* the caches after computeVertexBuffer() on the symbols deriveSymbols()
\* returned; interpretToVertexBuffer gives two vertices for each F
VertexNeedsRecompute(c, p, v, syms) ==
    LET vertex == c.cachedVertex
        symbolsChanged == \/ syms.length # vertex.symbolCount
                          \/ GrammarStr(p) # vertex.grammarStr
                          \/ p.iterations # vertex.iterations
    IN  \/ symbolsChanged
        \/ p.angle # vertex.angle
        \/ vertex.vertexCount = 0
        \/ VisualKey(v) # vertex.visual

ComputeVertexBufferStore(c, p, v, syms) ==
    LET needsRecompute == VertexNeedsRecompute(c, p, v, syms)
    IN  IF syms.length = 0 \/ ~needsRecompute \/ syms.draws = 0 THEN c
        ELSE [c EXCEPT !.cachedVertex =
                           [vertexData |-> interpretFastStore(syms, p.angle, v),
                            vertexCount |-> 2 * syms.draws,
                            symbolCount |-> syms.length,
                            grammarStr |-> GrammarStr(p),
                            iterations |-> p.iterations,
                            angle |-> p.angle,
                            visual |-> VisualKey(v)],
                       !.cachedAngle = p.angle,
                       !.cachedVisual = VisualKey(v)]

\* what computeSegmentsAsync returned
Result(kind, segments) == [kind |-> kind, segments |-> segments]

NullResult == Result("null", NoSegments)

\* a request: where computeSegmentsAsync is, the arguments it gave
\* interpretSymbolsGPU, the lsystemParams it started from, the segment count
\* it read, what it returned and which engine its caller is left with
Request(at, syms, angle, started, segmentCount, res, served) ==
    [pc |-> at, symbols |-> syms, angle |-> angle, started |-> started,
     segmentCount |-> segmentCount, result |-> res, served |-> served]

\* computeSegmentsAsync has returned
Returned(res, served) ==
    Request("idle", NoSymbols, 0,
            [axiomLength |-> 0, rules |-> <<>>, iterations |-> 0, angle |-> 0],
            0, res, served)

\* the requests waiting on a mapAsync
InFlight(reqs) == {r \in Requests : reqs[r].pc \in {"awaitCount", "awaitSegments"}}

\* the device and the contents of the context's buffers
NewDevice ==
    [lost |-> FALSE,
     symbolsBuffer |-> [size |-> TurtleInitialSize, data |-> NoSymbols],
     params |-> [count |-> 0, angle |-> 0],
     segmentCount |-> 0,
     segmentsBuffer |-> NoSegments,
     countReadback |-> 0,
     readback |-> NoSegments,
     lastWrite |-> [words |-> 0, capacity |-> TurtleInitialSize],
     segmentStores |-> 0,
     pendingMaps |-> <<>>]

\* interpretSymbolsGPU from ensureBufferSize to queue.submit: the context and
\* the device after it.  On a lost device the calls do nothing.  A
\* writeBuffer larger than its buffer and a submit using a buffer with a map
\* pending are validation errors: the call returns and nothing is executed.
\* Queue order makes the effects visible to a later read-back as if each call
\* had run when it was made.
SubmitSegments(tc, dev, syms, angle) ==
    LET recreated == syms.length > tc.currentBufferSize
        size == TurtleEnsureBufferSize(tc.currentBufferSize, syms.length)
        buffer == IF recreated THEN [size |-> size, data |-> NoSymbols]
                  ELSE dev.symbolsBuffer
        fits == syms.length <= buffer.size
        written == IF fits THEN [buffer EXCEPT !.data = syms] ELSE buffer
        valid == tc.countReadbackBuffer = "unmapped"
        draws == Min(syms.length, written.data.length)
    IN  [tc |-> [tc EXCEPT !.currentBufferSize = size],
         dev |-> IF dev.lost THEN dev
                 ELSE [dev EXCEPT
                         !.symbolsBuffer = written,
                         !.lastWrite = [words |-> syms.length,
                                        capacity |-> buffer.size],
                         !.params = [count |-> syms.length, angle |-> angle],
                         !.segmentCount = IF valid THEN draws ELSE 0,
                         !.segmentStores = IF valid THEN draws ELSE @,
                         !.segmentsBuffer =
                             IF valid /\ draws > 0
                             THEN Segments(written.data, angle,
                                           Min(draws, MAX_SEGMENTS), "gpu")
                             ELSE @,
                         !.countReadback = IF valid THEN draws ELSE @]]

\* interpretSymbolsGPU from the segment count to the second mapAsync: the
\* read-back buffer kept or recreated, and the copy into it (a validation
\* error when it reads past the end of the segments buffer)
SubmitReadback(tc, dev, segmentCount) ==
    LET readSize == segmentCount * SEGMENT_SIZE
        recreated == tc.readbackBuffer.size < readSize
        size == IF recreated THEN readSize ELSE tc.readbackBuffer.size
        before == IF recreated THEN NoSegments ELSE dev.readback
        valid == /\ readSize <= MAX_SEGMENTS * SEGMENT_SIZE
                 /\ (recreated \/ tc.readbackBuffer.state = "unmapped")
    IN  [tc |-> [tc EXCEPT !.countReadbackBuffer = "unmapped",
                           !.readbackBuffer = [size |-> size, state |-> "pending"]],
         dev |-> IF dev.lost THEN dev
                 ELSE [dev EXCEPT !.readback = IF valid THEN dev.segmentsBuffer
                                               ELSE before]]

(***************************************************************************)
(* The store: user input, computeSegments and computeSegmentsAsync         *)
(***************************************************************************)
\* what a call did: whether deriveN was called, whether the symbols were
\* interpreted, and the changed flag of a computeVertexBuffer result; at
\* numbers the calls
Did(call, at, derived, interpreted, changed) ==
    [call |-> call, at |-> at, derived |-> derived, interpreted |-> interpreted,
     changed |-> changed]

NoCache ==
    [cachedSymbols |-> NoSymbols, cachedGrammarStr |-> <<>>, cachedIterations |-> 0 - 1,
     cachedSegments |-> NoSegments, cachedAngle |-> 0 - 1,
     cachedVisual |-> VisualKey(DefaultVisual), cachedVertex |-> NoVertex]

\* the store as the module creates it, apart from lsystemParams
StoreCreated ==
    /\ visualState = DefaultVisual
    /\ cached = NoCache
    /\ engineState = [gpuAvailable |-> FALSE, gpuTurtleActive |-> FALSE]
    /\ gpuTurtleCtx = [life |-> "none", isReady |-> FALSE, currentBufferSize |-> 0,
                       countReadbackBuffer |-> "unmapped",
                       readbackBuffer |-> [size |-> 0, state |-> "unmapped"]]
    /\ device = NewDevice
    /\ requests = [r \in Requests |-> Returned(Result("none", NoSegments), "none")]
    /\ gpuFailed = FALSE
    /\ sharedUse = [by |-> 0, inFlight |-> {}]
    /\ events = [inputs |-> 0, calls |-> 0,
                 last |-> Did("none", 0, FALSE, FALSE, FALSE)]

\* one more user input
UserInput ==
    /\ events.inputs < MaxInputs
    /\ events' = [events EXCEPT !.inputs = @ + 1]

\* parseGrammar is not called
ParserIdle ==
    /\ text = <<>>
    /\ tokens = <<>>
    /\ parse = [i |-> 1, axiom |-> <<>>, rules |-> <<>>, parametricRules |-> <<>>]
    /\ parsePc = "idle"
    /\ parseResult = [kind |-> "none"]
    /\ reparse = [is |-> FALSE, of |-> [kind |-> "none"]]

\* calculateSafeGenerations is not called
SafeIdle ==
    /\ maxSymbols = SAFE_MAX_SYMBOLS
    /\ safeGenerations = 0

\* no store activity
StoreIdle ==
    /\ lsystemParams = [axiomLength |-> 1, rules |-> RulesSquare, iterations |-> 5,
                        angle |-> 25]
    /\ StoreCreated

\* the angle slider: lsystemParams.angle = a
SetAngle ==
    /\ UserInput
    /\ \E a \in StoreAngles :
          /\ a # lsystemParams.angle
          /\ lsystemParams' = [lsystemParams EXCEPT !.angle = a]
    /\ UNCHANGED <<inputVars, parserVars, safeVars, seqVars, gpuVars, turtleVars,
                   visualState, cached, engineState,
                   gpuTurtleCtx, device, requests, gpuFailed, sharedUse>>

\* the axiom field: lsystemParams.axiom = text
SetAxiom ==
    /\ UserInput
    /\ \E len \in StoreAxiomLengths :
          /\ len # lsystemParams.axiomLength
          /\ lsystemParams' = [lsystemParams EXCEPT !.axiomLength = len]
    /\ UNCHANGED <<inputVars, parserVars, safeVars, seqVars, gpuVars, turtleVars,
                   visualState, cached, engineState,
                   gpuTurtleCtx, device, requests, gpuFailed, sharedUse>>

\* setIterations(n)
SetIterations ==
    /\ UserInput
    /\ \E n \in 0..MaxIterations :
          LET safeMax == getSafeMaxIterations(lsystemParams)
              clamped == Max(0, Min(n, safeMax + 5))
          IN  /\ clamped # lsystemParams.iterations
              /\ lsystemParams' = [lsystemParams EXCEPT !.iterations = clamped]
    /\ UNCHANGED <<inputVars, parserVars, safeVars, seqVars, gpuVars, turtleVars,
                   visualState, cached, engineState,
                   gpuTurtleCtx, device, requests, gpuFailed, sharedUse>>

\* regenerate()
Regenerate ==
    /\ events.inputs < MaxInputs
    /\ events' = [events EXCEPT
                     !.inputs = @ + 1,
                     !.last = Did("regenerate", events.inputs + events.calls + 1,
                                  FALSE, FALSE, FALSE)]
    /\ cached # NoCache
    /\ cached' = [cached EXCEPT !.cachedGrammarStr = <<>>,
                                !.cachedIterations = 0 - 1,
                                !.cachedSegments = NoSegments,
                                !.cachedAngle = 0 - 1]
    /\ UNCHANGED <<inputVars, parserVars, safeVars, seqVars, gpuVars, turtleVars,
                   visualState, lsystemParams, engineState,
                   gpuTurtleCtx, device, requests, gpuFailed, sharedUse>>

\* computeSegments(): the sequential engine
ComputeSegments ==
    /\ events.inputs < MaxInputs
    /\ LET derived == DeriveSymbolsStore(cached, lsystemParams)
           interpreted == InterpretToSegmentsStore(derived, lsystemParams, visualState,
                                                   derived.cachedSymbols)
       IN  /\ events' = [events EXCEPT
                            !.inputs = @ + 1,
                            !.last = Did("computeSegments",
                                         events.inputs + events.calls + 1,
                                         ~SymbolsCached(cached, lsystemParams),
                                         /\ derived.cachedSymbols.length # 0
                                         /\ SegmentsNeedRecompute(derived, lsystemParams,
                                                                  visualState),
                                         FALSE)]
           /\ cached' = interpreted
           /\ cached' # cached
           /\ engineState' =
                 IF interpreted # derived
                 THEN [engineState EXCEPT !.gpuTurtleActive = FALSE]
                 ELSE engineState
    /\ UNCHANGED <<inputVars, parserVars, safeVars, seqVars, gpuVars, turtleVars,
                   visualState, lsystemParams,
                   gpuTurtleCtx, device, requests, gpuFailed, sharedUse>>

\* initGPUDerivationStore(device) on mount.  When it fails, gpuTurtleCtx
\* stays null and gpuAvailable false, which is the state before the call.
InitGPUDerivationStore ==
    /\ gpuTurtleCtx.life = "none"
    /\ gpuTurtleCtx' = [life |-> "ready", isReady |-> TRUE,
                        currentBufferSize |-> TurtleInitialSize,
                        countReadbackBuffer |-> "unmapped",
                        readbackBuffer |-> [size |-> 0, state |-> "unmapped"]]
    /\ engineState' = [engineState EXCEPT !.gpuAvailable = TRUE]
    /\ UNCHANGED <<inputVars, parserVars, safeVars, seqVars, gpuVars, turtleVars,
                   visualState, events, lsystemParams, cached,
                   device, requests, gpuFailed, sharedUse>>

\* destroyGPUDerivationStore() on unmount: the buffers are destroyed, which
\* aborts the maps pending on them
DestroyGPUDerivationStore ==
    /\ gpuTurtleCtx.life = "ready"
    /\ gpuTurtleCtx' = [gpuTurtleCtx EXCEPT !.life = "destroyed", !.isReady = FALSE]
    /\ engineState' = [engineState EXCEPT !.gpuAvailable = FALSE]
    /\ UNCHANGED <<inputVars, parserVars, safeVars, seqVars, gpuVars, turtleVars,
                   visualState, events, lsystemParams, cached,
                   device, requests, gpuFailed, sharedUse>>

\* the device is lost; the handler of device.lost only logs
DeviceLost ==
    /\ gpuTurtleCtx.life = "ready"
    /\ ~device.lost
    /\ device' = [device EXCEPT !.lost = TRUE]
    /\ UNCHANGED <<inputVars, parserVars, safeVars, seqVars, gpuVars, turtleVars,
                   visualState, events, lsystemParams, cached,
                   engineState, gpuTurtleCtx, requests, gpuFailed, sharedUse>>

\* computeSegmentsAsync() up to its first suspension: null without a ready
\* context or enough syms, the cached segments on a cache hit, otherwise
\* interpretSymbolsGPU up to await countReadbackBuffer.mapAsync.  A map
\* already pending on that buffer rejects the new mapAsync at once, and the
\* catch block returns null.
ComputeSegmentsAsyncCall(r) ==
    /\ requests[r].pc = "idle"
    /\ \A q \in Requests : requests[q].pc = "idle" => r <= q
    /\ events.calls < MaxCalls
    /\ events' = [events EXCEPT !.calls = @ + 1]
    /\ LET derived == DeriveSymbolsStore(cached, lsystemParams)
           syms == derived.cachedSymbols
           submitted == SubmitSegments(gpuTurtleCtx, device, syms,
                                       lsystemParams.angle)
       IN  IF \/ syms.length = 0
              \/ gpuTurtleCtx.life # "ready"
              \/ ~gpuTurtleCtx.isReady
              \/ ~shouldUseGPUTurtle(syms.length)
           THEN /\ requests' = [requests EXCEPT ![r] = Returned(NullResult, "sequential")]
                /\ cached' = derived
                /\ UNCHANGED <<gpuTurtleCtx, device, gpuFailed, sharedUse>>
           ELSE IF lsystemParams.angle = derived.cachedAngle
                   /\ derived.cachedSegments.count > 0
           THEN /\ requests' = [requests EXCEPT ![r] =
                                   Returned(Result("segments", derived.cachedSegments),
                                            "cache")]
                /\ cached' = derived
                /\ UNCHANGED <<gpuTurtleCtx, device, gpuFailed, sharedUse>>
           ELSE /\ cached' = derived
                /\ sharedUse' = [by |-> r, inFlight |-> InFlight(requests) \ {r}]
                /\ IF gpuTurtleCtx.countReadbackBuffer = "pending"
                   THEN /\ gpuTurtleCtx' = submitted.tc
                        /\ device' = submitted.dev
                        /\ requests' = [requests EXCEPT ![r] =
                                           Returned(NullResult, "parallel")]
                        /\ gpuFailed' = TRUE
                   ELSE /\ gpuTurtleCtx' = [submitted.tc EXCEPT
                                               !.countReadbackBuffer = "pending"]
                        /\ device' = [submitted.dev EXCEPT
                                         !.pendingMaps = Append(@, r)]
                        /\ requests' = [requests EXCEPT ![r] =
                                           Request("awaitCount", syms,
                                                   lsystemParams.angle, lsystemParams,
                                                   0, Result("none", NoSegments),
                                                   "parallel")]
                        /\ UNCHANGED gpuFailed
    /\ UNCHANGED <<inputVars, parserVars, safeVars, seqVars, gpuVars, turtleVars,
                   visualState, lsystemParams, engineState>>

\* countReadbackBuffer.mapAsync resolves: [] (null to the caller) for a
\* count of zero, otherwise the copy into the read-back buffer is submitted
\* and the request waits for readbackBuffer.mapAsync
CountMapped(r) ==
    /\ requests[r].pc = "awaitCount"
    /\ device.pendingMaps # <<>>
    /\ Head(device.pendingMaps) = r
    /\ ~(device.lost \/ gpuTurtleCtx.life # "ready")
    /\ LET segmentCount == device.countReadback
           submitted == SubmitReadback(gpuTurtleCtx, device, segmentCount)
       IN  IF segmentCount = 0
           THEN /\ gpuTurtleCtx' = [gpuTurtleCtx EXCEPT !.countReadbackBuffer = "unmapped"]
                /\ device' = [device EXCEPT !.pendingMaps = Tail(@)]
                /\ requests' = [requests EXCEPT ![r] = Returned(NullResult, "parallel")]
                /\ UNCHANGED sharedUse
           ELSE /\ gpuTurtleCtx' = submitted.tc
                /\ device' = [submitted.dev EXCEPT !.pendingMaps = Append(Tail(@), r)]
                /\ requests' = [requests EXCEPT ![r].pc = "awaitSegments",
                                                ![r].segmentCount = segmentCount]
                /\ sharedUse' = [by |-> r, inFlight |-> InFlight(requests) \ {r}]
    /\ UNCHANGED <<inputVars, parserVars, safeVars, seqVars, gpuVars, turtleVars,
                   visualState, events, lsystemParams, cached,
                   engineState, gpuFailed>>

\* readbackBuffer.mapAsync resolves: the segments are converted, normalised,
\* stored in the cache under the current angle and returned
SegmentsMapped(r) ==
    /\ requests[r].pc = "awaitSegments"
    /\ device.pendingMaps # <<>>
    /\ Head(device.pendingMaps) = r
    /\ ~(device.lost \/ gpuTurtleCtx.life # "ready")
    /\ LET data == device.readback
           segmentCount == requests[r].segmentCount
           \* the LineSegment array built from segmentCount segments of the data
           segments == IF data.by = "none"
                       THEN Segments(NoSymbols, 0, segmentCount, "zeros")
                       ELSE Segments(data.symbols, data.angle, segmentCount, data.by)
           normalized == normalizeSegments(segments)
       IN  /\ cached' = [cached EXCEPT !.cachedAngle = lsystemParams.angle,
                                       !.cachedSegments = normalized]
           /\ requests' = [requests EXCEPT ![r] =
                              Returned(Result("segments", normalized), "parallel")]
    /\ gpuTurtleCtx' = [gpuTurtleCtx EXCEPT !.readbackBuffer.state = "unmapped"]
    /\ device' = [device EXCEPT !.pendingMaps = Tail(@)]
    /\ engineState' = [engineState EXCEPT !.gpuTurtleActive = TRUE]
    /\ UNCHANGED <<inputVars, parserVars, safeVars, seqVars, gpuVars, turtleVars,
                   visualState, events, lsystemParams, gpuFailed,
                   sharedUse>>

\* a mapAsync rejects: the catch block logs and returns null
MapRejected(r) ==
    /\ requests[r].pc \in {"awaitCount", "awaitSegments"}
    /\ device.pendingMaps # <<>>
    /\ Head(device.pendingMaps) = r
    /\ device.lost \/ gpuTurtleCtx.life # "ready"
    /\ requests' = [requests EXCEPT ![r] = Returned(NullResult, "parallel")]
    /\ device' = [device EXCEPT !.pendingMaps = Tail(@)]
    /\ gpuTurtleCtx' =
          IF requests[r].pc = "awaitCount"
          THEN [gpuTurtleCtx EXCEPT !.countReadbackBuffer = "unmapped"]
          ELSE [gpuTurtleCtx EXCEPT !.readbackBuffer.state = "unmapped"]
    /\ gpuFailed' = TRUE
    /\ UNCHANGED <<inputVars, parserVars, safeVars, seqVars, gpuVars, turtleVars,
                   visualState, events, lsystemParams, cached,
                   engineState, sharedUse>>

AsyncNext ==
    \/ SetAngle
    \/ SetAxiom
    \/ SetIterations
    \/ Regenerate
    \/ ComputeSegments
    \/ InitGPUDerivationStore
    \/ DestroyGPUDerivationStore
    \/ DeviceLost
    \/ \E r \in Requests : ComputeSegmentsAsyncCall(r)
    \/ \E r \in Requests : CountMapped(r)
    \/ \E r \in Requests : SegmentsMapped(r)
    \/ \E r \in Requests : MapRejected(r)

(***************************************************************************)
(* The store's other actions: presets, the editor, the plan's arrow keys,  *)
(* the spectrum settings and computeVertexBuffer                           *)
(***************************************************************************)
\* kochCurve and levyCurve: axiom F, one rule, angle and iterations
Presets ==
    {[name |-> "Koch Curve", axiomLength |-> 1, rules |-> RulesKoch, angle |-> 90,
      iterations |-> 4],
     [name |-> "Levy C Curve", axiomLength |-> 1, rules |-> RulesLevy, angle |-> 45,
      iterations |-> 12]}

StoreRules == {RulesSquare, RulesKoch, RulesLevy}

SpectrumPresets == {"Forest", "Ocean"}

CustomSpectrums == {"stops A", "stops B"}

\* loadPreset(preset).  The rule lines it writes hold no probability and no
\* parameters, and parseCurrentGrammar reads the preset's rules back from them
LoadPreset ==
    /\ UserInput
    /\ \E preset \in Presets :
          /\ lsystemParams' = [axiomLength |-> preset.axiomLength,
                               rules |-> preset.rules,
                               iterations |-> preset.iterations,
                               angle |-> preset.angle]
          /\ visualState' = [visualState EXCEPT !.is3D = FALSE]
          /\ cached' = [cached EXCEPT !.cachedGrammarStr = <<>>,
                                      !.cachedIterations = 0 - 1,
                                      !.cachedAngle = 0 - 1,
                                      !.cachedSegments = NoSegments]
    /\ UNCHANGED <<inputVars, parserVars, safeVars, seqVars, gpuVars, turtleVars,
                   engineState, gpuTurtleCtx, device, requests, gpuFailed, sharedUse>>

\* the rules field of the editor: lsystemParams.rules = text
SetRules ==
    /\ UserInput
    /\ \E rules \in StoreRules :
          /\ rules # lsystemParams.rules
          /\ lsystemParams' = [lsystemParams EXCEPT !.rules = rules]
    /\ UNCHANGED <<inputVars, parserVars, safeVars, seqVars, gpuVars, turtleVars,
                   visualState, cached, engineState, gpuTurtleCtx, device, requests,
                   gpuFailed, sharedUse>>

\* onkeydown of the plan: ArrowUp below 12, ArrowDown above 1
KeyDown ==
    /\ UserInput
    /\ \E code \in {"ArrowUp", "ArrowDown"} :
          LET max == 12
              iterations == lsystemParams.iterations
          IN  /\ IF code = "ArrowUp" THEN iterations < max ELSE iterations > 1
              /\ lsystemParams' =
                    [lsystemParams EXCEPT !.iterations =
                        IF code = "ArrowUp" THEN iterations + 1 ELSE iterations - 1]
    /\ UNCHANGED <<inputVars, parserVars, safeVars, seqVars, gpuVars, turtleVars,
                   visualState, cached, engineState, gpuTurtleCtx, device, requests,
                   gpuFailed, sharedUse>>

\* setSpectrumPreset(presetName), setCustomSpectrum(spectrum) and
\* setUseSpectrum(useSpectrum)
SetSpectrum ==
    /\ UserInput
    /\ \/ \E presetName \in SpectrumPresets :
             visualState' = [visualState EXCEPT !.spectrum = presetName,
                                                !.spectrumPreset = presetName]
       \/ \E spectrum \in CustomSpectrums :
             visualState' = [visualState EXCEPT !.spectrum = spectrum,
                                                !.spectrumPreset = "custom"]
       \/ \E useSpectrum \in BOOLEAN :
             visualState' = [visualState EXCEPT !.useSpectrum = useSpectrum]
    /\ visualState' # visualState
    /\ UNCHANGED <<inputVars, parserVars, safeVars, seqVars, gpuVars, turtleVars,
                   lsystemParams, cached, engineState, gpuTurtleCtx, device, requests,
                   gpuFailed, sharedUse>>

\* computeVertexBuffer(), called for a frame
ComputeVertexBuffer ==
    /\ events.calls < MaxCalls
    /\ LET derived == DeriveSymbolsStore(cached, lsystemParams)
           computed == ComputeVertexBufferStore(derived, lsystemParams, visualState,
                                                derived.cachedSymbols)
           interpreted == /\ derived.cachedSymbols.length # 0
                          /\ VertexNeedsRecompute(derived, lsystemParams, visualState,
                                                  derived.cachedSymbols)
       IN  /\ events' = [events EXCEPT
                            !.calls = @ + 1,
                            !.last = Did("computeVertexBuffer",
                                         events.inputs + events.calls + 1,
                                         ~SymbolsCached(cached, lsystemParams),
                                         interpreted,
                                         interpreted /\ derived.cachedSymbols.draws # 0)]
           /\ cached' = computed
           /\ engineState' = IF computed # derived
                             THEN [engineState EXCEPT !.gpuTurtleActive = FALSE]
                             ELSE engineState
    /\ UNCHANGED <<inputVars, parserVars, safeVars, seqVars, gpuVars, turtleVars,
                   lsystemParams, visualState, gpuTurtleCtx, device, requests,
                   gpuFailed, sharedUse>>

\* the store in a browser without WebGPU: initGPUDerivationStore is not
\* called and computeSegmentsAsync returns null
StoreNext ==
    \/ SetAngle
    \/ SetAxiom
    \/ SetRules
    \/ SetIterations
    \/ KeyDown
    \/ LoadPreset
    \/ SetSpectrum
    \/ Regenerate
    \/ ComputeSegments
    \/ ComputeVertexBuffer
    \/ \E r \in Requests : ComputeSegmentsAsyncCall(r)

(***************************************************************************)
(* Specifications                                                          *)
(***************************************************************************)
\* deriveN is called with one of the grammars
InitSeq ==
    /\ grammar \in Grammars
    /\ generations \in 0..MaxGenerations
    /\ SeqStart
    /\ axiomLength = Len(grammar.axiom)
    /\ tracked = TRUE
    /\ GpuIdle
    /\ TurtleIdle
    /\ StoreIdle
    /\ ParserIdle
    /\ SafeIdle

\* sequential derivation of every grammar
SpecSeq == InitSeq /\ [][SeqNext]_vars

\* deriveGPU is about to be called with a grammar without choice
InitGpu ==
    /\ grammar \in {g \in Grammars : IsDeterministicD0L(g)}
    /\ generations \in 0..MaxGenerations
    /\ SeqIdle
    /\ axiomLength = Len(grammar.axiom)
    /\ tracked = TRUE
    /\ GpuIdle
    /\ TurtleIdle
    /\ StoreIdle
    /\ ParserIdle
    /\ SafeIdle

\* GPU derivation, sequences kept word by word
SpecGpu == InitGpu /\ [][GpuNext]_vars

\* axiom lengths of the runs that keep lengths only
CapacityAxiomLengths == {500, 1000, 3000000, 6000000}

\* deriveGPU is about to be called with an axiom of axiomLength symbols F;
\* the words of the buffers are not kept, only the counts
InitCapacity ==
    /\ grammar = GrammarSquare
    /\ generations \in 0..MaxGenerations
    /\ SeqIdle
    /\ axiomLength \in CapacityAxiomLengths
    /\ tracked = FALSE
    /\ GpuIdle
    /\ TurtleIdle
    /\ StoreIdle
    /\ ParserIdle
    /\ SafeIdle

\* GPU derivation of long sequences, lengths only
SpecCapacity == InitCapacity /\ [][GpuNext]_vars

\* longest sequence of the exhaustive turtle inputs
TurtleMaxLen == 4

\* the inputs of the interpreters: every sequence over the commands up to the
\* bound; F[+F][-F]F, a sequence with every command and symbols without one,
\* sequences with parameters; and an "F", one "[" more than the stack arrays
\* have slots, then one "]"
TurtleInputs ==
    LET alphabet == {"F", "f", "+", "-", "[", "]"}
        deepNesting == [k \in 1..(StackCapacity + 3) |->
                           IF k = 1 THEN Sym("F")
                           ELSE IF k <= StackCapacity + 2 THEN Sym("[")
                           ELSE Sym("]")]
    IN  UNION {[1..k -> {Sym(c) : c \in alphabet}] : k \in 0..TurtleMaxLen}
        \cup
        {StringToSymbols(<<"F", "[", "+", "F", "]", "[", "-", "F", "]", "F">>),
         StringToSymbols(<<"G", "[", "|", "g", "A", "]", "X", "B", "]", "F">>),
         <<PSym("F", <<20>>), Sym("["), PSym("+", <<180>>), PSym("f", <<5>>), Sym("]"),
           PSym("-", <<90>>), Sym("F")>>,
         <<PSym("F", <<0>>)>>,
         deepNesting}

\* one of the three interpreters is about to be called
InitTurtle ==
    /\ grammar = GrammarIdentity
    /\ generations = 0
    /\ SeqIdle
    /\ axiomLength = 0
    /\ tracked = TRUE
    /\ GpuIdle
    /\ input \in TurtleInputs
    /\ turnAngle \in {90, 180}
    /\ interp \in {"cpu", "fast", "gpu"}
    /\ ti = 1
    /\ run = NewRun("f64")
    /\ tpc = "call"
    /\ turtleResult = TurtleResult("none", <<>>, NoFrame)
    /\ tctx \in {[currentBufferSize |-> TurtleInitialSize, isReady |-> b] : b \in BOOLEAN}
    /\ uploaded = [symbols |-> <<>>, count |-> 0, angle |-> 0, step |-> 0]
    /\ opens = <<>>
    /\ closed = NotClosed
    /\ StoreIdle
    /\ ParserIdle
    /\ SafeIdle

\* the turtle interpreters, one symbol at a time
SpecTurtle == InitTurtle /\ [][TurtleNext]_vars

\* the store after the module is loaded, with any of the inputs
InitAsync ==
    /\ grammar = GrammarSquare
    /\ generations = 0
    /\ SeqIdle
    /\ axiomLength = 0
    /\ tracked = FALSE
    /\ GpuIdle
    /\ TurtleIdle
    /\ lsystemParams \in [axiomLength : StoreAxiomLengths,
                          rules : {RulesSquare},
                          iterations : 0..MaxIterations,
                          angle : StoreAngles]
    /\ StoreCreated
    /\ ParserIdle
    /\ SafeIdle

\* the store with its asynchronous GPU interpretation
SpecAsync == InitAsync /\ [][AsyncNext]_vars

\* the store after the module is loaded and a grammar was typed
InitStore ==
    /\ grammar = GrammarSquare
    /\ generations = 0
    /\ SeqIdle
    /\ axiomLength = 0
    /\ tracked = FALSE
    /\ GpuIdle
    /\ TurtleIdle
    /\ lsystemParams \in [axiomLength : StoreAxiomLengths,
                          rules : StoreRules,
                          iterations : 0..MaxIterations,
                          angle : StoreAngles]
    /\ StoreCreated
    /\ ParserIdle
    /\ SafeIdle

\* the store's synchronous actions
SpecStore == InitStore /\ [][StoreNext]_vars

\* calculateSafeGenerations(grammar, maxSymbols)
CalculateSafeGenerations ==
    /\ safeGenerations = 0
    /\ safeGenerations' = calculateSafeGenerations(grammar, maxSymbols)
    /\ UNCHANGED <<inputVars, parserVars, seqVars, gpuVars, turtleVars, storeVars,
                   maxSymbols>>

\* largest ceiling tried with a growth rate that is not a whole number
MaxFractionCeiling == 10000

\* calculateSafeGenerations is about to be called with a grammar and a ceiling
InitSafe ==
    /\ grammar \in Grammars \cup {GrammarSquare, GrammarUneven}
    /\ maxSymbols \in {1, 2, 7, 50, 200, 1000, MaxFractionCeiling, SAFE_MAX_SYMBOLS}
    /\ estimateGrowthRate(grammar).count = 1 \/ maxSymbols <= MaxFractionCeiling
    /\ safeGenerations = 0
    /\ generations = 0
    /\ SeqIdle
    /\ axiomLength = Len(grammar.axiom)
    /\ tracked = TRUE
    /\ GpuIdle
    /\ TurtleIdle
    /\ StoreIdle
    /\ ParserIdle

\* calculateSafeGenerations on every grammar and ceiling
SpecSafe == InitSafe /\ [][CalculateSafeGenerations]_vars

(***************************************************************************)
(* Grammar parser (grammar/parser.ts, the version with parametric rules).  *)
(* A text is a sequence of one-character strings, and so is a token's      *)
(* value and every expression string built from token values.  Numerals    *)
(* are whole numbers; the arrow is written "->".                           *)
(***************************************************************************)
\* Body(v), with v evaluated once
Strict(v, Body(_)) == CHOOSE r \in {Body(x) : x \in {v}} : TRUE

Token(type, value, line, column) ==
    [type |-> type, value |-> value, line |-> line, column |-> column]

isDigit(char) == char \in {"0", "1", "2", "3", "4", "5", "6", "7", "8", "9"}

isLetter(char) ==
    char \in {"A", "B", "C", "D", "E", "F", "G", "H", "I", "J", "K", "L", "M",
              "N", "O", "P", "Q", "R", "S", "T", "U", "V", "W", "X", "Y", "Z",
              "a", "b", "c", "d", "e", "f", "g", "h", "i", "j", "k", "l", "m",
              "n", "o", "p", "q", "r", "s", "t", "u", "v", "w", "x", "y", "z"}

isValidSymbol(char) ==
    \/ char \in {"+", "-", "&", "^", "\\", "|", "/", "[", "]", "{", "}", ".", ":"}
    \/ isLetter(char)

\* the first position at or after i whose character is in stop, Len + 1 if none
RECURSIVE ScanTo(_, _, _)
ScanTo(chars, i, stop) ==
    IF i > Len(chars) \/ stop[chars[i]] THEN i ELSE ScanTo(chars, i + 1, stop)

\* one pass of the tokenizer's loop at position i: the tokens it pushes (one
\* or none) and the position, line and column it leaves
TokenAt(chars, i, line, column) ==
    LET char == chars[i]
        nextChar == IF i < Len(chars) THEN chars[i + 1] ELSE ""
        Newline == [c \in {chars[k] : k \in i..Len(chars)} |-> c = "\n"]
        NotInNumber ==
            [c \in {chars[k] : k \in i..Len(chars)} |-> ~isDigit(c) /\ c # "."]
        Push(type, n) ==
            [pushed |-> <<Token(type, SubSeq(chars, i, i + n - 1), line, column)>>,
             i |-> i + n, line |-> line, column |-> column + n]
        Skip(j, col) == [pushed |-> <<>>, i |-> j, line |-> line, column |-> col]
    IN  IF char = "\n"
        THEN [pushed |-> <<Token("NEWLINE", <<char>>, line, column)>>,
              i |-> i + 1, line |-> line + 1, column |-> 1]
        ELSE IF char \in {" ", "\t", "\r"} THEN Skip(i + 1, column + 1)
        ELSE IF char = "#" THEN Skip(ScanTo(chars, i, Newline), column)
        ELSE IF char = "-" /\ nextChar = ">" THEN Push("ARROW", 2)
        ELSE IF char = "(" THEN Push("LPAREN", 1)
        ELSE IF char = ")" THEN Push("RPAREN", 1)
        ELSE IF char = "," THEN Push("COMMA", 1)
        ELSE IF char = ":" THEN Push("COLON", 1)
        ELSE IF isDigit(char) \/ (char = "." /\ isDigit(nextChar))
        THEN Push("NUMBER", ScanTo(chars, i, NotInNumber) - i)
        ELSE IF char \in {"*", "%", "<", ">", "=", "!"}
        THEN IF <<char, nextChar>> \in
                    {<<"<", "=">>, <<">", "=">>, <<"=", "=">>, <<"!", "=">>}
             THEN Push("EXPR", 2)
             ELSE Push("EXPR", 1)
        ELSE IF char \in {"+", "&", "^", "/", "|", "\\", "-"} THEN Push("SYMBOL", 1)
        ELSE IF isValidSymbol(char) THEN Push("SYMBOL", 1)
        ELSE Skip(i + 1, column + 1)

RECURSIVE tokenizeFrom(_, _, _, _)
tokenizeFrom(chars, i, line, column) ==
    IF i > Len(chars) THEN <<Token("EOF", <<>>, line, column)>>
    ELSE Strict(TokenAt(chars, i, line, column),
                LAMBDA t : t.pushed \o tokenizeFrom(chars, t.i, t.line, t.column))

\* No token spans a "\n" and the loop starts every line at column 1, so the
\* loop is run on one line at a time: line n gives its tokens and then, where
\* the loop stands at its end, the NEWLINE token or (last line) the EOF token
tokenize(chars) ==
    LET newlines == {k \in 1..Len(chars) : chars[k] = "\n"}
        \* the position of the n-th "\n"; 0 and Len + 1 stand for the text's ends
        NewlineAt(n) ==
            IF n = 0 THEN 0
            ELSE IF n > Cardinality(newlines) THEN Len(chars) + 1
            ELSE CHOOSE k \in newlines : Cardinality({j \in newlines : j < k}) = n - 1
        Line(n) == SubSeq(chars, NewlineAt(n - 1) + 1, NewlineAt(n) - 1)
        Ended(n, toks) ==
            IF n > Cardinality(newlines) THEN toks
            ELSE [toks EXCEPT ![Len(toks)] = [@ EXCEPT !.type = "NEWLINE",
                                                       !.value = <<"\n">>]]
        RECURSIVE Lines(_)
        Lines(n) ==
            IF n > Cardinality(newlines) + 1 THEN <<>>
            ELSE Ended(n, tokenizeFrom(Line(n), 1, n, 1)) \o Lines(n + 1)
    IN  Lines(1)

\* parseFloat on the characters the model's texts hold: an optional sign and
\* the longest run of digits; no digit is NaN (Err)
parseFloat(chars) ==
    LET signed == chars # <<>> /\ chars[1] \in {"+", "-"}
        first == IF signed THEN 2 ELSE 1
        NotDigit == [c \in {chars[k] : k \in 1..Len(chars)} |-> ~isDigit(c)]
        last == ScanTo(chars, first, NotDigit) - 1
        DigitValue(c) ==
            CHOOSE d \in 0..9 :
                <<"0", "1", "2", "3", "4", "5", "6", "7", "8", "9">>[d + 1] = c
        RECURSIVE Value(_)
        Value(k) == IF k < first THEN 0 ELSE 10 * Value(k - 1) + DigitValue(chars[k])
    IN  IF last < first THEN Err
        ELSE Ok(IF signed /\ chars[1] = "-" THEN 0 - Value(last) ELSE Value(last))

\* String(n) for a whole number
RECURSIVE NumberToString(_)
NumberToString(n) ==
    IF n < 0 THEN <<"-">> \o NumberToString(0 - n)
    ELSE IF n < 10 THEN <<(<<"0", "1", "2", "3", "4", "5", "6", "7", "8", "9">>)[n + 1]>>
    ELSE NumberToString(n \div 10) \o NumberToString(n % 10)

(***************************************************************************)
(* Expressions (grammar/expression.ts).  An identifier is kept as its      *)
(* sequence of characters.                                                 *)
(***************************************************************************)
RECURSIVE tokenizeExpressionFrom(_, _)
tokenizeExpressionFrom(chars, i) ==
    IF i > Len(chars) THEN <<[type |-> "eof"]>>
    ELSE LET c == chars[i]
             twoChar == IF i < Len(chars) THEN <<c, chars[i + 1]>> ELSE <<c>>
             NotInNumber ==
                 [d \in {chars[k] : k \in i..Len(chars)} |-> ~isDigit(d) /\ d # "."]
             NotInIdent ==
                 [d \in {chars[k] : k \in i..Len(chars)} |->
                     ~(isLetter(d) \/ isDigit(d) \/ d = "_")]
             One(type) == <<[type |-> type]>> \o tokenizeExpressionFrom(chars, i + 1)
         IN  IF c \in {" ", "\t", "\r", "\n"} THEN tokenizeExpressionFrom(chars, i + 1)
             ELSE IF isDigit(c) \/ (c = "." /\ i < Len(chars) /\ isDigit(chars[i + 1]))
             THEN LET j == ScanTo(chars, i, NotInNumber)
                  IN  <<[type |-> "number",
                         value |-> parseFloat(SubSeq(chars, i, j - 1)).value]>>
                          \o tokenizeExpressionFrom(chars, j)
             ELSE IF isLetter(c) \/ c = "_"
             THEN LET j == ScanTo(chars, i, NotInIdent)
                  IN  <<[type |-> "ident", value |-> SubSeq(chars, i, j - 1)]>>
                          \o tokenizeExpressionFrom(chars, j)
             ELSE IF twoChar \in {<<"<", "=">>, <<">", "=">>, <<"=", "=">>,
                                  <<"!", "=">>, <<"&", "&">>, <<"|", "|">>}
             THEN <<[type |-> "op", value |-> twoChar[1] \o twoChar[2]]>>
                      \o tokenizeExpressionFrom(chars, i + 2)
             ELSE IF c \in {"+", "-", "*", "/", "%", "^", "<", ">", "!"}
             THEN <<[type |-> "op", value |-> c]>> \o tokenizeExpressionFrom(chars, i + 1)
             ELSE IF c = "(" THEN One("lparen")
             ELSE IF c = ")" THEN One("rparen")
             ELSE IF c = "," THEN One("comma")
             ELSE tokenizeExpressionFrom(chars, i + 1)

tokenizeExpression(chars) == tokenizeExpressionFrom(chars, 1)

\* ExpressionParser: levels 1..5 are parseOr, parseAnd, parseComparison,
\* parseAddSub and parseMulDiv, 6 is parsePower, 7 parseUnary, 8 parsePrimary;
\* the result is the expression and the position after it
RECURSIVE ExpressionParser(_, _, _)
ExpressionParser(toks, level, pos) ==
    LET current(p) == IF p <= Len(toks) THEN toks[p] ELSE [type |-> "eof"]
        getOpValue(p) == IF current(p).type = "op" THEN current(p).value ELSE ""
        At(p, e) == [pos |-> p, expr |-> e]
        SkipRparen(p) == IF current(p).type = "rparen" THEN p + 1 ELSE p
        ops == <<{"||"}, {"&&"}, {"<", ">", "<=", ">=", "==", "!="},
                 {"+", "-"}, {"*", "/", "%"}>>
        RECURSIVE Rest(_)
        Rest(left) ==
            IF getOpValue(left.pos) \in ops[level]
            THEN Strict(ExpressionParser(toks, level + 1, left.pos + 1),
                        LAMBDA right :
                            Rest(At(right.pos,
                                    Bin(getOpValue(left.pos), left.expr, right.expr))))
            ELSE left
        RECURSIVE Args(_)
        Args(as) ==
            IF current(as.pos).type = "comma"
            THEN Strict(ExpressionParser(toks, 1, as.pos + 1),
                        LAMBDA a : Args(At(a.pos, Append(as.expr, a.expr))))
            ELSE as
        Power(left) ==
            IF getOpValue(left.pos) = "^"
            THEN Strict(ExpressionParser(toks, 6, left.pos + 1),
                        LAMBDA right : At(right.pos, Bin("^", left.expr, right.expr)))
            ELSE left
    IN  IF level <= 5 THEN Strict(ExpressionParser(toks, level + 1, pos), Rest)
        ELSE IF level = 6 THEN Strict(ExpressionParser(toks, 7, pos), Power)
        ELSE IF level = 7
        THEN IF getOpValue(pos) \in {"-", "!"}
             THEN Strict(ExpressionParser(toks, 7, pos + 1),
                         LAMBDA operand :
                             At(operand.pos,
                                [type |-> "unary", op |-> getOpValue(pos),
                                 operand |-> operand.expr]))
             ELSE ExpressionParser(toks, 8, pos)
        ELSE IF current(pos).type = "number" THEN At(pos + 1, Num(current(pos).value))
        ELSE IF current(pos).type = "ident"
        THEN IF current(pos + 1).type = "lparen"
             THEN Strict(IF current(pos + 2).type # "rparen"
                         THEN Strict(ExpressionParser(toks, 1, pos + 2),
                                     LAMBDA a : Args(At(a.pos, <<a.expr>>)))
                         ELSE At(pos + 2, <<>>),
                         LAMBDA as :
                             At(SkipRparen(as.pos),
                                [type |-> "call", name |-> current(pos).value,
                                 args |-> as.expr]))
             ELSE At(pos + 1, Var(current(pos).value))
        ELSE IF current(pos).type = "lparen"
        THEN Strict(ExpressionParser(toks, 1, pos + 1),
                    LAMBDA e : At(SkipRparen(e.pos), e.expr))
        ELSE At(pos, Num(0))

parseExpression(chars) == ExpressionParser(tokenizeExpression(chars), 1, 1).expr

\* stringifyExpr of parser.ts
RECURSIVE stringifyExpr(_)
stringifyExpr(expr) ==
    LET RECURSIVE Joined(_, _)
        Joined(es, k) ==
            IF k > Len(es) THEN <<>>
            ELSE (IF k > 1 THEN <<",">> ELSE <<>>) \o stringifyExpr(es[k]) \o Joined(es, k + 1)
        OpChars(o) ==
            CASE o = "<=" -> <<"<", "=">>
              [] o = ">=" -> <<">", "=">>
              [] o = "==" -> <<"=", "=">>
              [] o = "!=" -> <<"!", "=">>
              [] o = "&&" -> <<"&", "&">>
              [] o = "||" -> <<"|", "|">>
              [] OTHER -> <<o>>
    IN  CASE expr.type = "number" -> NumberToString(expr.value)
          [] expr.type = "variable" -> expr.name
          [] expr.type = "binary" ->
                <<"(">> \o stringifyExpr(expr.left) \o OpChars(expr.op)
                    \o stringifyExpr(expr.right) \o <<")">>
          [] expr.type = "unary" -> <<expr.op>> \o stringifyExpr(expr.operand)
          [] expr.type = "call" -> expr.name \o <<"(">> \o Joined(expr.args, 1) \o <<")">>
          [] OTHER -> <<"0">>

(***************************************************************************)
(* parseGrammar and its helpers.  Positions are 1-based; a helper returns  *)
(* what it parsed with the position i it leaves.  Token values hold no     *)
(* white space, so trim() changes nothing.                                 *)
(***************************************************************************)
collectExpression(toks, start) ==
    LET RECURSIVE Collect(_, _, _)
        Collect(i, expr, parenDepth) ==
            IF i > Len(toks) THEN [i |-> i, expr |-> expr]
            ELSE IF toks[i].type = "LPAREN"
            THEN Collect(i + 1, IF parenDepth + 1 > 1 THEN Append(expr, "(") ELSE expr,
                         parenDepth + 1)
            ELSE IF toks[i].type = "RPAREN"
            THEN IF parenDepth - 1 < 0 THEN [i |-> i, expr |-> expr]
                 ELSE IF parenDepth - 1 > 0
                 THEN Collect(i + 1, Append(expr, ")"), parenDepth - 1)
                 ELSE [i |-> i + 1, expr |-> expr]
            ELSE IF toks[i].type = "COMMA" /\ parenDepth = 1 THEN [i |-> i, expr |-> expr]
            ELSE IF toks[i].type \in {"NEWLINE", "EOF"} THEN [i |-> i, expr |-> expr]
            ELSE Collect(i + 1, expr \o toks[i].value, parenDepth)
    IN  Collect(start, <<>>, 0)

\* called on a SYMBOL token: F or F(expr, expr, ...)
parseParametricSymbol(toks, start) ==
    LET RECURSIVE Params(_, _)
        Params(i, params) ==
            IF toks[i].type \in {"RPAREN", "EOF", "NEWLINE"}
            THEN [i |-> i, params |-> params]
            ELSE LET Pushed(c) == IF c.expr # <<>> THEN Append(params, c.expr) ELSE params
                     Collected(c) ==
                         IF toks[c.i].type = "COMMA" THEN Params(c.i + 1, Pushed(c))
                         ELSE IF toks[c.i].type = "RPAREN"
                         THEN [i |-> c.i + 1, params |-> Pushed(c)]
                         ELSE Params(c.i, Pushed(c))
                 IN  Strict(collectExpression(toks, i), Collected)
        Parsed(r) == [i |-> r.i, symbol |-> toks[start].value[1], params |-> r.params]
    IN  Strict(IF toks[start + 1].type = "LPAREN" THEN Params(start + 2, <<>>)
               ELSE [i |-> start + 1, params |-> <<>>], Parsed)

parseParametricSequence(toks, start) ==
    LET RECURSIVE Sequence(_, _)
        Sequence(i, successors) ==
            IF toks[i].type # "SYMBOL" THEN [i |-> i, successors |-> successors]
            ELSE Strict(parseParametricSymbol(toks, i),
                        LAMBDA r :
                            Sequence(r.i,
                                Append(successors,
                                       PSucc(r.symbol,
                                             [k \in 1..Len(r.params) |->
                                                 parseExpression(r.params[k])]))))
    IN  Sequence(start, <<>>)

parseSymbolSequence(toks, start) ==
    LET OrZero(number) == IF number.ok THEN number.value ELSE 0
        RECURSIVE Sequence(_, _)
        Sequence(i, syms) ==
            IF toks[i].type # "SYMBOL" THEN [i |-> i, symbols |-> syms]
            ELSE IF toks[i + 1].type = "LPAREN"
            THEN Strict(parseParametricSymbol(toks, i),
                        LAMBDA r :
                            Sequence(r.i,
                                Append(syms,
                                       PSym(r.symbol,
                                            [k \in 1..Len(r.params) |->
                                                OrZero(parseFloat(r.params[k]))]))))
            ELSE Sequence(i + 1, Append(syms, Sym(toks[i].value[1])))
    IN  Sequence(start, <<>>)

ParseError(message, token) ==
    [kind |-> "error", message |-> message, line |-> token.line, column |-> token.column]

\* a probability that was not written (undefined) is the empty sequence
ParsedD0L(pred, succ, prob) ==
    [predecessor |-> pred, successor |-> succ, probability |-> prob]

\* position of the first token at or after i that is no NEWLINE
RECURSIVE SkipNewlines(_, _)
SkipNewlines(toks, i) ==
    IF toks[i].type = "NEWLINE" THEN SkipNewlines(toks, i + 1) ELSE i

\* one pass of the "Parse lines" loop on a token that is not EOF: the parser
\* state after it (kind "lines") or the ParseError it returns
ParseLine(toks, p) ==
    LET Continue(j, ax, rs, prs) ==
            [kind |-> "lines",
             parse |-> [i |-> IF toks[j].type = "NEWLINE" THEN j + 1 ELSE j,
                        axiom |-> ax, rules |-> rs, parametricRules |-> prs]]
        IsSymbol(j, lower) ==
            /\ j <= Len(toks)
            /\ toks[j].type = "SYMBOL"
            /\ toks[j].value[1] \in lower
        RECURSIVE SymbolsEnd(_)
        SymbolsEnd(j) == IF toks[j].type = "SYMBOL" THEN SymbolsEnd(j + 1) ELSE j
        RECURSIVE ParamNames(_, _)
        ParamNames(j, names) ==
            IF toks[j].type \in {"SYMBOL", "COMMA"}
            THEN LET pushed == IF toks[j].type = "SYMBOL"
                               THEN Append(names, toks[j].value[1]) ELSE names
                 IN  IF toks[j + 1].type = "RPAREN" THEN [i |-> j + 2, names |-> pushed]
                     ELSE ParamNames(j + 1, pushed)
            ELSE [i |-> j, names |-> names]
        RECURSIVE ConditionEnd(_)
        ConditionEnd(j) ==
            IF toks[j].type \in {"ARROW", "EOF", "NEWLINE"} THEN j ELSE ConditionEnd(j + 1)
        RECURSIVE Values(_, _)
        Values(j, k) == IF j >= k THEN <<>> ELSE toks[j].value \o Values(j + 1, k)
        Condition(condExpr) ==
            IF condExpr # <<>> THEN parseExpression(condExpr) ELSE [type |-> "none"]
        Probability(j) ==
            IF /\ toks[j].type = "LPAREN"
               /\ j + 1 <= Len(toks) /\ toks[j + 1].type = "NUMBER"
               /\ j + 2 <= Len(toks) /\ toks[j + 2].type = "RPAREN"
            THEN [i |-> j + 3, probability |-> <<parseFloat(toks[j + 1].value).value>>]
            ELSE [i |-> j, probability |-> <<>>]
        \* axiom = parseSymbolSequence(); skip newline; continue
        Axiom(s) == Continue(s.i, s.symbols, p.rules, p.parametricRules)
        ParametricRule(names, condition, s, prob) ==
            IF Len(s.successors) = 0
            THEN ParseError("Expected successor symbols after '->'", toks[s.i])
            ELSE Continue(prob.i, p.axiom, p.rules,
                          Append(p.parametricRules,
                                 PRule(toks[p.i].value[1], names, condition,
                                       s.successors, prob.probability)))
        D0LRule(s, prob) ==
            IF Len(s.symbols) = 0
            THEN ParseError("Expected successor symbols after '->'", toks[s.i])
            ELSE Continue(prob.i, p.axiom,
                          Append(p.rules,
                                 ParsedD0L(toks[p.i].value[1], s.symbols,
                                           prob.probability)),
                          p.parametricRules)
        WithSuccessor(names, condition, s) ==
            IF Len(names) > 0 THEN ParametricRule(names, condition, s, Probability(s.i))
            ELSE D0LRule(s, Probability(s.i))
        \* head: the predecessor and its parameter names; arrow: the position
        \* after the condition, where "->" is expected
        Rule(head, arrow) ==
            IF toks[arrow].type # "ARROW"
            THEN IF Len(p.rules) = 0 /\ Len(p.parametricRules) = 0 /\ Len(p.axiom) = 0
                 THEN Strict(parseSymbolSequence(toks, SkipNewlines(toks, 1)), Axiom)
                 ELSE ParseError("Expected '->' after predecessor", toks[arrow])
            ELSE Strict(IF Len(head.names) > 0
                        THEN parseParametricSequence(toks, arrow + 1)
                        ELSE parseSymbolSequence(toks, arrow + 1),
                        LAMBDA s :
                            WithSuccessor(head.names,
                                          IF toks[head.i].type = "COLON"
                                          THEN Condition(Values(head.i + 1, arrow))
                                          ELSE [type |-> "none"],
                                          s))
        Predecessor(head) ==
            Strict(IF toks[head.i].type = "COLON" THEN ConditionEnd(head.i + 1)
                   ELSE head.i,
                   LAMBDA arrow : Rule(head, arrow))
        AfterAxiomWord(j) ==
            Strict(parseSymbolSequence(toks, IF toks[j].type = "COLON" THEN j + 1 ELSE j),
                   Axiom)
    IN  IF toks[p.i].type = "NEWLINE"
        THEN [kind |-> "lines", parse |-> [p EXCEPT !.i = p.i + 1]]
        ELSE IF /\ IsSymbol(p.i, {"a", "A"}) /\ IsSymbol(p.i + 1, {"x", "X"})
                /\ IsSymbol(p.i + 2, {"i", "I"}) /\ IsSymbol(p.i + 3, {"o", "O"})
                /\ IsSymbol(p.i + 4, {"m", "M"})
        THEN Strict(SymbolsEnd(p.i), AfterAxiomWord)
        ELSE IF toks[p.i].type = "SYMBOL"
        THEN Strict(IF toks[p.i + 1].type = "LPAREN" THEN ParamNames(p.i + 2, <<>>)
                    ELSE [i |-> p.i + 1, names |-> <<>>],
                    Predecessor)
        ELSE [kind |-> "lines", parse |-> [p EXCEPT !.i = p.i + 1]]

\* "Default axiom if not specified" and the return
ParsedGrammar(p) ==
    [kind |-> "grammar",
     axiom |-> IF Len(p.axiom) > 0 THEN p.axiom
               ELSE IF Len(p.rules) > 0 THEN <<Sym(p.rules[1].predecessor)>>
               ELSE IF Len(p.parametricRules) > 0
               THEN <<PSym(p.parametricRules[1].predecessor, <<1>>)>>
               ELSE <<Sym("F")>>,
     rules |-> p.rules,
     parametricRules |-> p.parametricRules]

\* serializeGrammar: the lines joined with "\n"
serializeGrammar(g) ==
    LET RECURSIVE Join(_, _, _)
        Join(parts, sep, from) ==
            IF from > Len(parts) THEN <<>>
            ELSE (IF from > 1 THEN sep ELSE <<>>) \o parts[from]
                     \o Join(parts, sep, from + 1)
        Numbers(ps) == Join([n \in 1..Len(ps) |-> NumberToString(ps[n])], <<",">>, 1)
        Exprs(es) == Join([n \in 1..Len(es) |-> stringifyExpr(es[n])], <<",">>, 1)
        Names(ns) == Join([n \in 1..Len(ns) |-> <<ns[n]>>], <<",">>, 1)
        axiomStr ==
            Join([k \in 1..Len(g.axiom) |->
                     IF Len(g.axiom[k].params) > 0
                     THEN <<g.axiom[k].id, "(">> \o Numbers(g.axiom[k].params) \o <<")">>
                     ELSE <<g.axiom[k].id>>], <<>>, 1)
        Prob(rule) ==
            IF rule.probability # <<>> /\ rule.probability[1] # 1
            THEN <<" ", "(">> \o NumberToString(rule.probability[1]) \o <<")">>
            ELSE <<>>
        D0LLine(rule) ==
            <<rule.predecessor, " ", "-", ">", " ">>
                \o [j \in 1..Len(rule.successor) |-> rule.successor[j].id] \o Prob(rule)
        ParametricLine(rule) ==
            <<rule.predecessor>>
                \o (IF Len(rule.params) > 0
                    THEN <<"(">> \o Names(rule.params) \o <<")">> ELSE <<>>)
                \o (IF rule.condition.type # "none"
                    THEN <<" ", ":", " ">> \o stringifyExpr(rule.condition) ELSE <<>>)
                \o <<" ", "-", ">", " ">>
                \o Join([j \in 1..Len(rule.successor) |->
                            IF Len(rule.successor[j].params) > 0
                            THEN <<rule.successor[j].symbol, "(">>
                                     \o Exprs(rule.successor[j].params) \o <<")">>
                            ELSE <<rule.successor[j].symbol>>], <<>>, 1)
                \o Prob(rule)
    IN  Join(<<<<"a", "x", "i", "o", "m", ":", " ">> \o axiomStr, <<>>>>
                 \o [k \in 1..Len(g.rules) |-> D0LLine(g.rules[k])]
                 \o [k \in 1..Len(g.parametricRules) |->
                         ParametricLine(g.parametricRules[k])],
             <<"\n">>, 1)

(***************************************************************************)
(* The parser's run: parseGrammar(text), one pass of its line loop per     *)
(* step, then parseGrammar(serializeGrammar(g)) on the grammar it returned *)
(***************************************************************************)
\* const tokens = tokenize(input); ...; skip leading newlines
ParseGrammarCall ==
    /\ parsePc = "call"
    /\ \E toks \in {tokenize(text)} :
           /\ tokens' = toks
           /\ parse' = [i |-> SkipNewlines(toks, 1), axiom |-> <<>>, rules |-> <<>>,
                        parametricRules |-> <<>>]
    /\ parsePc' = "lines"
    /\ UNCHANGED <<inputVars, seqVars, gpuVars, turtleVars, storeVars, safeVars,
                   text, parseResult, reparse>>

\* one pass of while (tokens[i].type !== 'EOF')
ParseGrammarLine ==
    /\ parsePc = "lines"
    /\ tokens[parse.i].type # "EOF"
    /\ \E r \in {ParseLine(tokens, parse)} :
           IF r.kind = "lines"
           THEN parse' = r.parse /\ UNCHANGED <<parsePc, parseResult>>
           ELSE parseResult' = r /\ parsePc' = "done" /\ UNCHANGED parse
    /\ UNCHANGED <<inputVars, seqVars, gpuVars, turtleVars, storeVars, safeVars,
                   text, tokens, reparse>>

\* the loop has reached EOF: default axiom, return { axiom, rules, parametricRules }
ParseGrammarReturn ==
    /\ parsePc = "lines"
    /\ tokens[parse.i].type = "EOF"
    /\ parseResult' = ParsedGrammar(parse)
    /\ parsePc' = "done"
    /\ UNCHANGED <<inputVars, seqVars, gpuVars, turtleVars, storeVars, safeVars,
                   text, tokens, parse, reparse>>

\* parseGrammar(serializeGrammar(g)) for the grammar g the first parse returned
SerializeAndReparse ==
    /\ parsePc = "done"
    /\ ~reparse.is
    /\ parseResult.kind = "grammar"
    /\ reparse' = [is |-> TRUE, of |-> parseResult]
    /\ text' = serializeGrammar(parseResult)
    /\ parsePc' = "call"
    /\ UNCHANGED <<inputVars, seqVars, gpuVars, turtleVars, storeVars, safeVars,
                   tokens, parse, parseResult>>

ParseNext ==
    \/ ParseGrammarCall
    \/ ParseGrammarLine
    \/ ParseGrammarReturn
    \/ SerializeAndReparse

\* longest text made of every combination of the characters of ShortAlphabet
ParseMaxLen == 3

\* most lines of GrammarLines a text is made of
ParseMaxLines == 3

\* the texts parseGrammar is called with
GrammarTexts ==
    LET ShortAlphabet == {"F", "(", ")", ",", "1", "-", ">", "\n"}
        GrammarLines ==
            {<<"a", "x", "i", "o", "m", ":", " ", "F", "+", "G">>,
             <<"a", "x", "i", "o", "m", ":", " ", "F", "(", "1", ",", "2", ")", "G">>,
             <<"F", "+", "F">>,
             <<"F", "(", "1", ",", "2", ")">>,
             <<"1">>,
             <<>>,
             <<"#", " ", "c">>,
             <<"F", " ", "-", ">", " ", "F", "F">>,
             <<"F", " ", "-", ">", " ", "F", "+", "G", " ", "(", "2", ")">>,
             <<"F", " ", "-", ">", " ", "G", "(", "2", ")">>,
             <<"G", " ", "-", ">", " ", "F", "(", "1", ")", "(", "2", ")">>,
             <<"F", " ", "-", ">">>,
             <<"F", "(", "l", ")", " ", "-", ">", " ", "F", "(", "l", "+", "1", ")">>,
             <<"F", "(", "l", ")", " ", "-", ">", " ", "G", "(", "l", ",", "2", ")">>,
             <<"F", "(", "l", ")", " ", ":", " ", "l", " ", ">", " ", "1", " ", "-", ">", " ", "F", "(", "l", "-", "1", ")", "G", "(", "l", ",", "2", ")", " ", "(", "2", ")">>,
             <<"G", "(", "l", ",", "w", ")", " ", "-", ">", " ", "F", "(", "(", "l", ")", ",", "(", "w", ")", ")", "G", "(", "2", ")", "(", "3", ")">>,
             <<"A", "(", "t", ")", " ", ":", " ", "t", " ", ">", "=", " ", "0", " ", "-", ">", " ", "F", "A", "(", "-", "t", "*", "2", ")">>}
        RECURSIVE Texts(_)
        Texts(n) ==
            IF n = 1 THEN GrammarLines
            ELSE Texts(n - 1)
                     \cup {t \o <<"\n">> \o l : t \in Texts(n - 1), l \in GrammarLines}
    IN  UNION {[1..n -> ShortAlphabet] : n \in 1..ParseMaxLen} \cup Texts(ParseMaxLines)

\* parseGrammar is about to be called with a text
InitParse ==
    /\ text \in GrammarTexts
    /\ tokens = <<>>
    /\ parse = [i |-> 1, axiom |-> <<>>, rules |-> <<>>, parametricRules |-> <<>>]
    /\ parsePc = "call"
    /\ parseResult = [kind |-> "none"]
    /\ reparse = [is |-> FALSE, of |-> [kind |-> "none"]]
    /\ grammar = GrammarIdentity
    /\ generations = 0
    /\ SeqIdle
    /\ axiomLength = Len(grammar.axiom)
    /\ tracked = TRUE
    /\ GpuIdle
    /\ TurtleIdle
    /\ StoreIdle
    /\ SafeIdle

\* parseGrammar on every text, and the reparse of what it serialises to
SpecParse == InitParse /\ [][ParseNext]_vars

\* longest text of the runs whose termination is checked
LiveMaxLen == 12

\* parseGrammar is about to be called with a text of at most LiveMaxLen
\* characters
InitParseFair == InitParse /\ Len(text) <= LiveMaxLen

\* the parser on these texts, its steps taken as long as one is possible
SpecParseFair == InitParseFair /\ [][ParseNext]_vars /\ WF_vars(ParseNext)

(***************************************************************************)
(* deriveGPU on axioms of more than one scan block                         *)
(***************************************************************************)
\* axiom lengths of the runs over several blocks of ELEMENTS_PER_BLOCK words
BlockAxiomLengths == {2, 1000, 1025}

\* an axiom of n symbols, every third one a "+", with the rule F -> FF
BlockGrammar(n) ==
    Grammar([i \in 1..n |-> Sym(IF i % 3 = 0 THEN "+" ELSE "F")],
            <<D0L("F", <<"F", "F">>, ProbUnit)>>, <<>>)

\* deriveGPU is about to be called with such an axiom
InitBlocks ==
    /\ grammar \in {BlockGrammar(n) : n \in BlockAxiomLengths}
    /\ generations \in 0..MaxGenerations
    /\ Len(grammar.axiom) >= GPU_THRESHOLD => generations <= 1
    /\ SeqIdle
    /\ axiomLength = Len(grammar.axiom)
    /\ tracked = TRUE
    /\ GpuIdle
    /\ TurtleIdle
    /\ StoreIdle
    /\ ParserIdle
    /\ SafeIdle

\* GPU derivation, sequences kept word by word; the long axioms are carried
\* through one generation
SpecBlocks == InitBlocks /\ [][GpuNext]_vars

(***************************************************************************)
(* Parallel turtle (turtle/parallel-turtle.wgsl).  A pass is one dispatch  *)
(* with an invocation for every position; the passes run in the order of   *)
(* their numbers.  Buffers are functions on the positions 0..n-1 and start *)
(* zeroed.  Angles are whole degrees, and 0xFFFFFFFF is kept as -1.  The   *)
(* prefix sum of pass 2 is done by the host, whose code the repository     *)
(* does not hold: it follows the specification, which words it in two      *)
(* ways.  written records, for the elements a finished pass wrote, the     *)
(* pass that wrote them.                                                   *)
(***************************************************************************)
Zeroed(n) == [i \in 0..(n - 1) |-> 0]

NewParallelRun(n) ==
    [bracket_depth |-> Zeroed(n), bracket_open_idx |-> Zeroed(n),
     angle_at |-> Zeroed(n), pos_x |-> Zeroed(n), pos_y |-> Zeroed(n),
     is_draw_cmd |-> Zeroed(n), segments |-> <<>>, written |-> {}]

\* compute_bracket_depth: the depth change and the draw mark of position gid
compute_bracket_depth(syms, gid) ==
    [bracket_depth |-> IF syms[gid + 1] = "[" THEN 1
                       ELSE IF syms[gid + 1] = "]" THEN 0 - 1 ELSE 0,
     is_draw_cmd |-> IF syms[gid + 1] \in {"F", "G"} THEN 1 ELSE 0]

\* the exclusive prefix sum of the depth changes without the clamp
RECURSIVE ExclusiveDepth_Unclamped(_, _)
ExclusiveDepth_Unclamped(deltas, i) ==
    IF i = 0 THEN 0 ELSE ExclusiveDepth_Unclamped(deltas, i - 1) + deltas[i - 1]

\* the exclusive prefix sum of the depth changes, clamped at 0
RECURSIVE ExclusiveDepth(_, _)
ExclusiveDepth(deltas, i) ==
    IF i = 0 THEN 0 ELSE Max(0, ExclusiveDepth(deltas, i - 1) + deltas[i - 1])

\* DepthScan with the exclusive prefix sum whatever the reading
DepthScan_Exclusive(deltas, reading) ==
    [i \in DOMAIN deltas |-> ExclusiveDepth(deltas, i)]

\* depth[i] of the specification: "exclusive" is the depth pass of the
\* algorithm (the exclusive prefix sum), "including" the bracket structure of
\* the glossary (a "[" counts for its own position, a "]" does not yet)
DepthScan(deltas, reading) ==
    [i \in DOMAIN deltas |->
        IF reading = "including" /\ deltas[i] = 1
        THEN ExclusiveDepth(deltas, i) + 1
        ELSE ExclusiveDepth(deltas, i)]

\* the loop of match_brackets (bracket-match.wgsl) from position i: stk holds
\* the indices of the "[" not yet closed, matched is bracket_match
RECURSIVE MatchLoop(_, _, _, _)
MatchLoop(syms, i, stk, matched) ==
    IF i >= Len(syms) THEN matched
    ELSE IF syms[i + 1] = "[" THEN MatchLoop(syms, i + 1, Append(stk, i), matched)
    ELSE IF syms[i + 1] = "]" /\ Len(stk) > 0
         THEN LET open_idx == stk[Len(stk)]
              IN  MatchLoop(syms, i + 1, SubSeq(stk, 1, Len(stk) - 1),
                            [matched EXCEPT ![open_idx] = i, ![i] = open_idx])
    ELSE MatchLoop(syms, i + 1, stk, matched)

\* match_brackets: bracket_match, which compute_depth has set to -1
match_brackets(syms) ==
    MatchLoop(syms, 0, <<>>, [i \in 0..(Len(syms) - 1) |-> 0 - 1])

\* the backward loop of find_bracket_opens from position i
RECURSIVE ScanBack(_, _, _, _)
ScanBack(syms, bracket_depth, depth, i) ==
    IF i < 0 THEN 0 - 1
    ELSE IF syms[i + 1] = "[" /\ bracket_depth[i] = depth THEN i
    ELSE ScanBack(syms, bracket_depth, depth, i - 1)

\* find_bracket_opens: bracket_open_idx[gid]
find_bracket_opens(syms, bracket_depth, gid) ==
    IF syms[gid + 1] = "[" THEN gid
    ELSE IF bracket_depth[gid] = 0 THEN 0 - 1
    ELSE ScanBack(syms, bracket_depth, bracket_depth[gid], gid - 1)

\* compute_angles: the local angle delta of position gid
compute_angles(syms, gid, angleDeg) ==
    CASE syms[gid + 1] = "+" -> angleDeg
      [] syms[gid + 1] = "-" -> 0 - angleDeg
      [] syms[gid + 1] = "|" -> 180
      [] OTHER -> 0

\* select(0u, u32(open_idx) + 1u, open_idx >= 0)
ScopeStart(open_idx) == IF open_idx >= 0 THEN open_idx + 1 ELSE 0

\* the loop of accumulate_angles from position i up to gid: what it adds
RECURSIVE ScopeAngles(_, _, _, _, _)
ScopeAngles(syms, bracket_depth, gid, i, angleDeg) ==
    IF i >= gid THEN 0
    ELSE (IF \/ bracket_depth[i] = bracket_depth[gid]
             \/ syms[i + 1] \in {"[", "]"}
          THEN 0
          ELSE compute_angles(syms, i, angleDeg))
         + ScopeAngles(syms, bracket_depth, gid, i + 1, angleDeg)

\* accumulate_angles: angle_at[gid], parent being what the invocation read
\* from angle_at[open_idx]
accumulate_angles(syms, r, gid, parent, angleDeg) ==
    LET open_idx == r.bracket_open_idx[gid]
        total_angle == IF open_idx >= 0 THEN parent ELSE InitialAngle
    IN  total_angle + ScopeAngles(syms, r.bracket_depth, gid, ScopeStart(open_idx), angleDeg)

\* the contents of angle_at a dispatch of accumulate_angles can leave: an
\* invocation reads angle_at[open_idx] before or after the invocation of
\* open_idx has stored its total
AccumulateOutcomes(syms, r, angleDeg) ==
    LET positions == DOMAIN r.angle_at
        early == [gid \in positions |->
                     accumulate_angles(syms, r, gid,
                                       IF r.bracket_open_idx[gid] >= 0
                                       THEN r.angle_at[r.bracket_open_idx[gid]] ELSE 0,
                                       angleDeg)]
        late == [gid \in positions |->
                    IF r.bracket_open_idx[gid] >= 0 /\ r.bracket_open_idx[gid] # gid
                    THEN accumulate_angles(syms, r, gid, early[r.bracket_open_idx[gid]],
                                           angleDeg)
                    ELSE early[gid]]
    IN  {a \in [positions -> {early[gid] : gid \in positions}
                                \cup {late[gid] : gid \in positions}] :
            \A gid \in positions : a[gid] \in {early[gid], late[gid]}}

\* the loop of compute_positions from position i up to gid, from the point p
RECURSIVE ScopePositions(_, _, _, _, _)
ScopePositions(syms, angle_at, gid, i, p) ==
    IF i >= gid THEN p
    ELSE ScopePositions(syms, angle_at, gid, i + 1,
                        IF syms[i + 1] \in {"F", "G", "f", "g"}
                        THEN Forward([x |-> p.x, y |-> p.y, angle |-> angle_at[i],
                                      nan |-> {}], DefaultStepSize)
                        ELSE p)

\* compute_positions: pos_x[gid] and pos_y[gid] of a draw command
compute_positions(syms, r, gid) ==
    LET open_idx == r.bracket_open_idx[gid]
        from == IF open_idx >= 0
                THEN [x |-> r.pos_x[open_idx], y |-> r.pos_y[open_idx]]
                ELSE [x |-> 0, y |-> 0]
    IN  ScopePositions(syms, r.angle_at, gid, ScopeStart(open_idx), from)

\* generate_segments: the segment of the draw command at gid
generate_segments(r, gid) ==
    LET end == Forward([x |-> r.pos_x[gid], y |-> r.pos_y[gid],
                        angle |-> r.angle_at[gid], nan |-> {}], DefaultStepSize)
    IN  [start |-> <<r.pos_x[gid], r.pos_y[gid]>>, end |-> <<end.x, end.y>>,
         depth |-> r.bracket_depth[gid]]

\* the buffer elements invocation gid of a pass reads, as <<buffer, index>>
PassReads(pass, syms, r, gid) ==
    LET open_idx == r.bracket_open_idx[gid]
        scope == ScopeStart(open_idx)..(gid - 1)
    IN  CASE pass = "compute_bracket_depth" -> {<<"symbols", gid>>}
          [] pass = "find_bracket_opens" ->
                {<<"symbols", gid>>, <<"bracket_depth", gid>>}
                \cup (IF syms[gid + 1] = "[" \/ r.bracket_depth[gid] = 0 THEN {}
                      ELSE LET found == ScanBack(syms, r.bracket_depth,
                                                 r.bracket_depth[gid], gid - 1)
                           IN  UNION {{<<"symbols", i>>, <<"bracket_depth", i>>} :
                                        i \in Max(found, 0)..(gid - 1)})
          [] pass = "compute_angles" -> {<<"symbols", gid>>}
          [] pass = "accumulate_angles" ->
                {<<"bracket_open_idx", gid>>}
                \cup (IF open_idx >= 0 THEN {<<"angle_at", open_idx>>} ELSE {})
                \cup UNION {{<<"bracket_depth", i>>, <<"bracket_depth", gid>>,
                             <<"symbols", i>>} : i \in scope}
          [] pass = "compute_positions" ->
                {<<"is_draw_cmd", gid>>}
                \cup (IF r.is_draw_cmd[gid] = 0 THEN {}
                      ELSE {<<"angle_at", gid>>, <<"bracket_open_idx", gid>>}
                           \cup (IF open_idx >= 0
                                 THEN {<<"pos_x", open_idx>>, <<"pos_y", open_idx>>}
                                 ELSE {})
                           \cup {<<"symbols", i>> : i \in scope}
                           \cup {<<"angle_at", i>> :
                                   i \in {j \in scope : syms[j + 1] \in {"F", "G", "f", "g"}}})
          [] pass = "generate_segments" ->
                {<<"is_draw_cmd", gid>>}
                \cup (IF r.is_draw_cmd[gid] = 0 THEN {}
                      ELSE {<<"pos_x", gid>>, <<"pos_y", gid>>, <<"angle_at", gid>>,
                            <<"bracket_depth", gid>>})

\* the buffer elements invocation gid of a pass writes
PassWrites(pass, r, gid) ==
    CASE pass = "compute_bracket_depth" -> {<<"bracket_depth", gid>>, <<"is_draw_cmd", gid>>}
      [] pass = "find_bracket_opens" -> {<<"bracket_open_idx", gid>>}
      [] pass = "compute_angles" -> {<<"angle_at", gid>>}
      [] pass = "accumulate_angles" -> {<<"angle_at", gid>>}
      [] pass = "compute_positions" ->
            IF r.is_draw_cmd[gid] = 0 THEN {} ELSE {<<"pos_x", gid>>, <<"pos_y", gid>>}
      [] pass = "generate_segments" -> {}

\* written after a pass has finished
WrittenAfter(pass, r) ==
    r.written \cup {<<w[1], w[2], pass>> :
                      w \in UNION {PassWrites(pass, r, gid) : gid \in DOMAIN r.angle_at}}

\* a pass has run and next is the pass after it
PassDone(pass, next, r) ==
    /\ run' = [r EXCEPT !.written = WrittenAfter(pass, run)]
    /\ tpc' = next
    /\ UNCHANGED <<inputVars, parserVars, safeVars, seqVars, gpuVars, storeVars, input,
                   turnAngle, interp, ti, turtleResult, tctx, uploaded, opens, closed>>

\* pass 1
ComputeBracketDepth ==
    /\ interp = "parallel" /\ tpc = "compute_bracket_depth"
    /\ PassDone("compute_bracket_depth", "depth_scan",
                [run EXCEPT
                    !.bracket_depth =
                        [gid \in DOMAIN @ |->
                            compute_bracket_depth(Ids(input), gid).bracket_depth],
                    !.is_draw_cmd =
                        [gid \in DOMAIN @ |->
                            compute_bracket_depth(Ids(input), gid).is_draw_cmd]])

\* pass 2, by the host, in either reading
DepthPass ==
    /\ interp = "parallel" /\ tpc = "depth_scan"
    /\ \E reading \in {"exclusive", "including"} :
          /\ run' = [run EXCEPT !.bracket_depth = DepthScan(@, reading)]
          /\ tpc' = "find_bracket_opens"
    /\ UNCHANGED <<inputVars, parserVars, safeVars, seqVars, gpuVars, storeVars, input,
                   turnAngle, interp, ti, turtleResult, tctx, uploaded, opens, closed>>

\* pass 3
FindBracketOpens ==
    /\ interp = "parallel" /\ tpc = "find_bracket_opens"
    /\ PassDone("find_bracket_opens", "compute_angles",
                [run EXCEPT
                    !.bracket_open_idx =
                        [gid \in DOMAIN @ |->
                            find_bracket_opens(Ids(input), run.bracket_depth, gid)]])

\* pass 4
ComputeAngles ==
    /\ interp = "parallel" /\ tpc = "compute_angles"
    /\ PassDone("compute_angles", "accumulate_angles",
                [run EXCEPT
                    !.angle_at = [gid \in DOMAIN @ |->
                                     compute_angles(Ids(input), gid, turnAngle)]])

\* pass 5
AccumulateAngles ==
    /\ interp = "parallel" /\ tpc = "accumulate_angles"
    /\ \E a \in AccumulateOutcomes(Ids(input), run, turnAngle) :
          PassDone("accumulate_angles", "compute_positions", [run EXCEPT !.angle_at = a])

\* pass 6
ComputePositions ==
    /\ interp = "parallel" /\ tpc = "compute_positions"
    /\ PassDone("compute_positions", "generate_segments",
                [run EXCEPT
                    !.pos_x = [gid \in DOMAIN @ |->
                                  IF run.is_draw_cmd[gid] = 0 THEN @[gid]
                                  ELSE compute_positions(Ids(input), run, gid).x],
                    !.pos_y = [gid \in DOMAIN @ |->
                                  IF run.is_draw_cmd[gid] = 0 THEN @[gid]
                                  ELSE compute_positions(Ids(input), run, gid).y]])

\* pass 7: atomicAdd hands out the segment slots in any order
GenerateSegments ==
    /\ interp = "parallel" /\ tpc = "generate_segments"
    /\ LET draws == {gid \in DOMAIN run.is_draw_cmd : run.is_draw_cmd[gid] = 1}
       IN  \E order \in {s \in [1..Cardinality(draws) -> draws] :
                           \A i, j \in DOMAIN s : s[i] = s[j] => i = j} :
              PassDone("generate_segments", "done",
                       [run EXCEPT !.segments =
                           [k \in DOMAIN order |-> generate_segments(run, order[k])]])

ParallelNext ==
    \/ ComputeBracketDepth
    \/ DepthPass
    \/ FindBracketOpens
    \/ ComputeAngles
    \/ AccumulateAngles
    \/ ComputePositions
    \/ GenerateSegments

\* longest sequence of the exhaustive inputs of the parallel turtle
ParallelMaxLen == 3

\* every sequence over the commands up to the bound, and F[+F[-F]F]F
ParallelInputs ==
    UNION {[1..k -> {Sym(c) : c \in {"F", "+", "-", "[", "]"}}] : k \in 0..ParallelMaxLen}
    \cup {StringToSymbols(<<"F", "[", "+", "F", "[", "-", "F", "]", "F", "]", "F">>)}

\* the passes of the parallel turtle are about to be dispatched
InitParallel ==
    /\ grammar = GrammarIdentity
    /\ generations = 0
    /\ SeqIdle
    /\ axiomLength = 0
    /\ tracked = TRUE
    /\ GpuIdle
    /\ input \in ParallelInputs
    /\ turnAngle \in {90, 180}
    /\ interp = "parallel"
    /\ ti = 1
    /\ run = NewParallelRun(Len(input))
    /\ tpc = "compute_bracket_depth"
    /\ turtleResult = TurtleResult("none", <<>>, NoFrame)
    /\ tctx = [currentBufferSize |-> TurtleInitialSize, isReady |-> TRUE]
    /\ uploaded = [symbols |-> <<>>, count |-> 0, angle |-> 0, step |-> 0]
    /\ opens = <<>>
    /\ closed = NotClosed
    /\ StoreIdle
    /\ ParserIdle
    /\ SafeIdle

\* the parallel turtle, one pass at a time
SpecParallel == InitParallel /\ [][ParallelNext]_vars

\* the two turtles of the device that keep a bracket depth: the passes of the
\* parallel turtle, and interpretSymbolsGPU with its serial kernel on the
\* inputs that fit its stack arrays
InitDepth ==
    \/ InitParallel
    \/ InitTurtle /\ interp = "gpu" /\ Len(input) <= StackCapacity

DepthNext ==
    \/ ParallelNext
    \/ InterpretGPUCall
    \/ SegmentsKernelStep
    \/ InterpretGPUCount
    \/ InterpretGPUReturn

SpecDepth == InitDepth /\ [][DepthNext]_vars

(***************************************************************************)
(* C1: for a grammar with only non-parametric, non-stochastic rules and    *)
(* any generation count, whenever deriveGPU returns a sequence it is the   *)
(* ordered sequence of symbol ids, of the same length, that deriveN        *)
(* returns.                                                                *)
(***************************************************************************)
C1_ParallelEqualsSequential ==
    (gpuPc = "done" /\ gpuResult.kind \in {"axiom", "symbols"})
        => Ids(gpuResult.symbols) = Ids(deriveN(grammar, generations))

(***************************************************************************)
(* C5: when the derivation's output would exceed the hard maximum symbol   *)
(* count, deriveGPU does not return a symbol sequence: once it has         *)
(* returned, its result is neither the axiom nor a sequence read back from *)
(* the device (it reports the overflow instead).                           *)
(***************************************************************************)
C5_OverflowReported ==
    (gpuPc = "done" /\ DerivedLength(axiomLength, grammar, generations) > MAX_SYMBOLS)
        => gpuResult.kind \notin {"axiom", "symbols"}

C2_ParallelTurtleEqualsSequential ==
    (interp = "gpu" /\ tpc = "done" /\ tctx.isReady)
        => turtleResult.segments = interpretSymbols(input, turnAngle)

(***************************************************************************)
(* C8: in each of the three interpreters, immediately after a "]" that     *)
(* closes a "[", the turtle's position, heading, depth and branchId are    *)
(* the ones it had immediately before that "[".                            *)
(***************************************************************************)
C8_StackRestores ==
    closed.matched => run.turtle = closed.before

(***************************************************************************)
(* C10: in each of the three interpreters a "]" met while the saved-state  *)
(* stack is empty changes nothing (position, heading, depth, branchId,     *)
(* stack and segments stay as they are and nothing is thrown) and the loop *)
(* goes on with the next symbol.                                           *)
(***************************************************************************)
C10_EmptyPopIsNoOp ==
    [][(/\ tpc \in {"run", "kernel"}
        /\ ti <= Len(input)
        /\ input[ti].id = "]"
        /\ run.stackTop = 0)
           => (run' = run /\ ti' = ti + 1 /\ tpc' = tpc)]_vars

\* interpretSymbols has passed a "]" on an empty stack and drawn the "F"
\* after it
C10_Witness ==
    /\ interp = "cpu"
    /\ tpc = "run"
    /\ ti = 3
    /\ input[1].id = "]"
    /\ input[2].id = "F"
    /\ run.stackTop = 0
    /\ Len(run.segments) = 1

(***************************************************************************)
(* C3: when a call of computeSegmentsAsync that was waiting for the GPU    *)
(* returns after the angle, the grammar or the iteration count has         *)
(* changed, its result is discarded: it does not return the segments and   *)
(* leaves the segment cache (cachedSegments, cachedAngle) as it was.       *)
(***************************************************************************)
C3_SupersededResultDiscarded ==
    [][\A r \in Requests :
          (/\ requests[r].pc \in {"awaitCount", "awaitSegments"}
           /\ requests'[r].pc = "idle"
           /\ requests[r].started # lsystemParams)
             => (/\ requests'[r].result.kind # "segments"
                 /\ cached'.cachedSegments = cached.cachedSegments
                 /\ cached'.cachedAngle = cached.cachedAngle)]_vars

(***************************************************************************)
(* C4: whenever a request writes, resizes or maps the buffers of the       *)
(* context, no other request is still waiting for its dispatch or its      *)
(* read-back.                                                              *)
(***************************************************************************)
C4_OneRequestUsesBuffers ==
    sharedUse.inFlight = {}

(***************************************************************************)
(* C6: interpretSymbolsGPU never writes more symbols than the symbol       *)
(* buffer holds, its kernel never stores more segments than the segment    *)
(* buffer holds, and no request with more than 4,000,000 symbols or more   *)
(* than 2,000,000 drawing symbols is on the parallel path.                 *)
(***************************************************************************)
C6_CapacityRespected ==
    /\ device.lastWrite.words <= device.lastWrite.capacity
    /\ device.segmentStores <= MAX_SEGMENTS
    /\ \A r \in InFlight(requests) :
          /\ requests[r].symbols.length <= TURTLE_MAX_SYMBOLS
          /\ requests[r].symbols.length <= MAX_SEGMENTS

(***************************************************************************)
(* C7: once a parallel request has failed, no later call of                *)
(* computeSegmentsAsync takes the parallel path: each is left to the       *)
(* sequential engine.                                                      *)
(***************************************************************************)
C7_NoParallelAfterFailure ==
    [][(gpuFailed /\ events'.calls # events.calls)
          => \A r \in Requests :
                (requests[r].pc = "idle" /\ requests'[r] # requests[r])
                   => requests'[r].served # "parallel"]_vars

C12_DerivationDeterministic ==
    (/\ pc = "done"
     /\ grammar.parametricRules = <<>>
     /\ \A i, j \in 1..Len(grammar.rules) :
           grammar.rules[i].predecessor = grammar.rules[j].predecessor => i = j)
        => symbols = deriveN(grammar, generations)

\* deriveN has returned the third generation of X -> F[+X], F -> FF
C12_Witness ==
    /\ pc = "done"
    /\ grammar = GrammarPlant
    /\ generations = 3
    /\ gen = 3
    /\ Len(symbols) > Len(grammar.axiom)

(***************************************************************************)
(* C13: interpretSymbols and interpretFast return exactly one segment per   *)
(* drawable symbol of the input (F and G for interpretSymbols; F, G, A and  *)
(* B for interpretFast): none for the empty sequence and one for a single   *)
(* F.                                                                       *)
(***************************************************************************)
C13_OneSegmentPerDrawable ==
    (tpc = "done" /\ interp \in {"cpu", "fast"})
        => Len(turtleResult.segments) =
              Cardinality({k \in 1..Len(input) :
                              input[k].id \in (IF interp = "cpu" THEN {"F", "G"}
                                               ELSE {"F", "G", "A", "B"})})

(***************************************************************************)
(* C19: when derive applies a parametric rule and the evaluation of a       *)
(* successor parameter expression fails (an unbound variable or an unknown  *)
(* function), the emitted symbol has the value 0 for that parameter, every  *)
(* other parameter has the value of its expression, and the step completes: *)
(* derive goes on with the next symbol.                                     *)
(***************************************************************************)
C19_FailedExpressionIsZero ==
    [][(/\ pc = "derive" /\ idx <= Len(symbols) /\ idx' = idx + 1
        /\ ParamCandidates(symbols[idx], grammar.parametricRules) # <<>>)
          => /\ pc' = "derive"
             /\ \E c \in 1..Len(ParamCandidates(symbols[idx], grammar.parametricRules)) :
                   LET rule == ParamCandidates(symbols[idx], grammar.parametricRules)[c]
                       vars0 == Binding(rule, symbols[idx])
                   IN  /\ Len(result') = Len(result) + Len(rule.successor)
                       /\ \A j \in 1..Len(rule.successor) :
                             LET emitted == result'[Len(result) + j]
                                 exprs == rule.successor[j].params
                             IN  /\ emitted.id = rule.successor[j].symbol
                                 /\ Len(emitted.params) = Len(exprs)
                                 /\ \A k \in 1..Len(exprs) :
                                       LET v == evaluateExpression(exprs[k], vars0)
                                       IN  emitted.params[k] = IF v.ok THEN v.value ELSE 0]_vars

\* A(2) has been rewritten by A(l) -> F(foo(l), l+1, q): the call of the
\* unknown function and the unbound variable have become 0
C19_Witness ==
    /\ grammar = GrammarFailing
    /\ pc = "derive" /\ gen = 0 /\ idx = 2
    /\ result = <<PSym("F", <<0, 3, 0>>)>>

(***************************************************************************)
(* C20: calculateSafeGenerations returns at most 20, whatever the grammar   *)
(* and the ceiling on the number of symbols.                                *)
(***************************************************************************)
C20_SafeGenerationsAtMost20 == safeGenerations <= 20

(***************************************************************************)
(* C14: for every input text parseGrammar returns, and what it returns is  *)
(* a Grammar or a ParseError {message, line, column}: every call reaches   *)
(* its return.                                                             *)
(***************************************************************************)
C14_ParseGrammarReturns ==
    <>(parsePc = "done" /\ parseResult.kind \in {"grammar", "error"})

(***************************************************************************)
(* C15: when a text parses to a Grammar g, parsing serializeGrammar(g)     *)
(* gives a Grammar again, with the same axiom symbols and parameters and   *)
(* the same rules: predecessors, parameter names, conditions, successors   *)
(* and probabilities (a probability that is not written counts as 1).      *)
(***************************************************************************)
C15_RoundTripEquivalent ==
    LET Probability(rule) ==
            IF rule.probability = <<>> THEN 1 ELSE rule.probability[1]
        SameRules(rs, qs) ==
            /\ Len(rs) = Len(qs)
            /\ \A k \in 1..Len(rs) :
                   /\ [rs[k] EXCEPT !.probability = <<>>]
                          = [qs[k] EXCEPT !.probability = <<>>]
                   /\ Probability(rs[k]) = Probability(qs[k])
    IN  (parsePc = "done" /\ reparse.is)
            => /\ parseResult.kind = "grammar"
               /\ parseResult.axiom = reparse.of.axiom
               /\ SameRules(parseResult.rules, reparse.of.rules)
               /\ SameRules(parseResult.parametricRules, reparse.of.parametricRules)

(***************************************************************************)
(* C16: a text without an axiom line whose first line that holds symbols   *)
(* is a bare symbol sequence (no "->"), followed by rule lines only, makes *)
(* parseGrammar return a Grammar whose axiom is exactly that sequence and  *)
(* whose rules are those of the rule lines.  The lines before the sequence *)
(* hold no symbol; the rule lines are D0L rules "X -> symbols".            *)
(***************************************************************************)
C16_BareSequenceIsAxiom ==
    LET newlines == {k \in 1..Len(text) : text[k] = "\n"}
        NewlineAt(n) ==
            IF n = 0 THEN 0
            ELSE IF n > Cardinality(newlines) THEN Len(text) + 1
            ELSE CHOOSE k \in newlines : Cardinality({j \in newlines : j < k}) = n - 1
        NoSpace(c) == c # " "
        Line(n) == SelectSeq(SubSeq(text, NewlineAt(n - 1) + 1, NewlineAt(n) - 1), NoSpace)
        last == Cardinality(newlines) + 1
        IsSymbol(c) == isValidSymbol(c) /\ c \notin {":", "."}
        Bare(l) == l # <<>> /\ \A k \in 1..Len(l) : IsSymbol(l[k])
        NoSymbol(l) == \A k \in 1..Len(l) : ~IsSymbol(l[k])
        RuleLine(l) ==
            /\ Len(l) >= 4
            /\ isLetter(l[1]) /\ l[2] = "-" /\ l[3] = ">"
            /\ \A k \in 4..Len(l) : IsSymbol(l[k])
        Symbols(l) == [k \in 1..Len(l) |-> Sym(l[k])]
        firsts == {b \in 1..last : ~NoSymbol(Line(b))
                                      /\ \A n \in 1..(b - 1) : NoSymbol(Line(n))}
        first == CHOOSE b \in firsts : TRUE
        BareFirst ==
            /\ firsts # {}
            /\ Bare(Line(first))
            /\ ~(Len(Line(first)) >= 5
                    /\ SubSeq(Line(first), 1, 5) = <<"a", "x", "i", "o", "m">>)
            /\ \A n \in (first + 1)..last : RuleLine(Line(n))
        Expected(b) ==
            [kind |-> "grammar",
             axiom |-> Symbols(Line(b)),
             rules |-> [n \in 1..(last - b) |->
                           ParsedD0L(Line(b + n)[1],
                                     Symbols(SubSeq(Line(b + n), 4, Len(Line(b + n)))),
                                     <<>>)],
             parametricRules |-> <<>>]
    IN  (parsePc = "call" /\ ~reparse.is /\ BareFirst)
            ~> (parsePc = "done" /\ ~reparse.is /\ BareFirst
                    /\ parseResult = Expected(first))

(***************************************************************************)
(* C17: a rule line whose successor is followed by a parenthesised number  *)
(* (p) parses to a rule whose probability is p, and p is no part of the    *)
(* successor: when a line ends with a space and "(p)", and the line        *)
(* without "(p)" is one rule (D0L or parametric) without a probability,    *)
(* the whole line parses to that same rule with probability p.             *)
(***************************************************************************)
C17_ProbabilityAfterSuccessor ==
    LET n == Len(text)
        RECURSIVE Run(_, _)
        Run(toks, p) ==
            IF toks[p.i].type = "EOF" THEN ParsedGrammar(p)
            ELSE Strict(ParseLine(toks, p),
                        LAMBDA r : IF r.kind = "lines" THEN Run(toks, r.parse) ELSE r)
        Parsed(chars) ==
            Strict(tokenize(chars),
                   LAMBDA toks : Run(toks, [i |-> SkipNewlines(toks, 1), axiom |-> <<>>,
                                            rules |-> <<>>, parametricRules |-> <<>>]))
        RuleLine ==
            /\ n >= 8
            /\ isLetter(text[1])
            /\ \A k \in 1..n : text[k] # "\n"
            /\ text[n - 3] = " "
            /\ text[n - 2] = "(" /\ isDigit(text[n - 1]) /\ text[n] = ")"
        NoProbability(rs) == \A k \in 1..Len(rs) : rs[k].probability = <<>>
        OneRule(g) ==
            /\ g.kind = "grammar"
            /\ Len(g.rules) + Len(g.parametricRules) = 1
            /\ NoProbability(g.rules) /\ NoProbability(g.parametricRules)
        With(rs, prob) == [k \in 1..Len(rs) |-> [rs[k] EXCEPT !.probability = <<prob>>]]
        WithProbability(g, prob) ==
            [g EXCEPT !.rules = With(@, prob), !.parametricRules = With(@, prob)]
    IN  (parsePc = "done" /\ ~reparse.is /\ RuleLine /\ OneRule(Parsed(SubSeq(text, 1, n - 3))))
            => parseResult = WithProbability(Parsed(SubSeq(text, 1, n - 3)),
                                             parseFloat(<<text[n - 1]>>).value)

(***************************************************************************)
(* C18: a symbol written with k comma-separated arguments parses to a      *)
(* symbol with exactly k parameters, the j-th from the j-th argument.  The *)
(* text is one line: "axiom: " and symbols, a D0L rule "X -> " and         *)
(* symbols, or a parametric rule "X(v) -> " and symbols; each symbol is    *)
(* followed by nothing or by "(a1,...,ak)", every argument one digit (or,  *)
(* in a parametric rule, one letter).  parseGrammar returns a Grammar      *)
(* whose axiom (or whose one rule's successor) is that list of symbols,    *)
(* each with the values of its k arguments as its k parameters.            *)
(***************************************************************************)
C18_ArgumentsArePositional ==
    LET n == Len(text)
        IsAxiomLine == n > 7 /\ SubSeq(text, 1, 7) = <<"a", "x", "i", "o", "m", ":", " ">>
        IsD0LLine == n > 5 /\ isLetter(text[1]) /\ SubSeq(text, 2, 5) = <<" ", "-", ">", " ">>
        IsParametricLine ==
            /\ n > 8
            /\ isLetter(text[1]) /\ text[2] = "(" /\ isLetter(text[3])
            /\ SubSeq(text, 4, 8) = <<")", " ", "-", ">", " ">>
        start == IF IsAxiomLine THEN 8 ELSE IF IsD0LLine THEN 6 ELSE 9
        IsSymbol(c) == isLetter(c) \/ c \in {"+", "[", "]"}
        IsArgument(c) == isDigit(c) \/ (IsParametricLine /\ isLetter(c))
        Closing == [c \in {text[k] : k \in 1..n} |-> c = ")"]
        Written(c, from, len) ==
            [id |-> c, arguments |-> [j \in 1..((len + 1) \div 2) |-> text[from + 2 * j]]]
        RECURSIVE Items(_)
        Items(i) ==
            IF i > n THEN [ok |-> TRUE, items |-> <<>>]
            ELSE IF ~IsSymbol(text[i]) THEN [ok |-> FALSE, items |-> <<>>]
            ELSE IF i < n /\ text[i + 1] = "("
            THEN LET close == ScanTo(text, i + 2, Closing)
                     len == close - (i + 2)
                 IN  IF /\ close <= n
                        /\ len % 2 = 1
                        /\ \A j \in 1..len :
                               IF j % 2 = 1 THEN IsArgument(text[i + 1 + j])
                               ELSE text[i + 1 + j] = ","
                     THEN Strict(Items(close + 1),
                                 LAMBDA r : [ok |-> r.ok,
                                             items |-> <<Written(text[i], i, len)>> \o r.items])
                     ELSE [ok |-> FALSE, items |-> <<>>]
            ELSE Strict(Items(i + 1),
                        LAMBDA r : [ok |-> r.ok,
                                    items |-> <<Written(text[i], i, 0)>> \o r.items])
        written == Items(start)
        Value(c) == IF IsParametricLine THEN parseExpression(<<c>>) ELSE parseFloat(<<c>>).value
        Expected(item) ==
            IF IsParametricLine
            THEN PSucc(item.id, [j \in 1..Len(item.arguments) |-> Value(item.arguments[j])])
            ELSE PSym(item.id, [j \in 1..Len(item.arguments) |-> Value(item.arguments[j])])
        expected == [k \in 1..Len(written.items) |-> Expected(written.items[k])]
    IN  (/\ parsePc = "done" /\ ~reparse.is
         /\ IsAxiomLine \/ IsD0LLine \/ IsParametricLine
         /\ written.ok
         /\ \E k \in 1..Len(written.items) : Len(written.items[k].arguments) > 0)
            => /\ parseResult.kind = "grammar"
               /\ IsAxiomLine => parseResult.axiom = expected
               /\ IsD0LLine => /\ Len(parseResult.rules) = 1
                               /\ parseResult.rules[1].successor = expected
               /\ IsParametricLine => /\ Len(parseResult.parametricRules) = 1
                                      /\ parseResult.parametricRules[1].successor = expected

(***************************************************************************)
(* C28: every iteration of parseGrammar's line loop consumes at least one  *)
(* token, the iteration that takes the implicit-axiom fallback included:   *)
(* a pass of the loop that does not return leaves the cursor i further     *)
(* along the token list than it found it (so the loop reaches EOF).        *)
(***************************************************************************)
C28_LineLoopConsumesToken ==
    [][(ParseGrammarLine /\ parsePc' = "lines") => parse'.i > parse.i]_vars

(***************************************************************************)
(* C29: in each interpreter, on every input, the number of turtle states   *)
(* saved at once (the "[" not yet closed, which is what the loop's stack   *)
(* top counts) never exceeds the 256 entries of the stack.                 *)
(***************************************************************************)
C29_SavedStatesWithinCapacity ==
    tpc \in {"run", "kernel"} => run.stackTop <= StackCapacity

(***************************************************************************)
(* C23: the count deriveOneGeneration returns (the next generation's input *)
(* count and the read-back length) is offsets[n-1] + counts[n-1], the sum  *)
(* of the expansion counts of the generation, n being its input count:     *)
(* once the device has run the passes of the last generation issued, the   *)
(* count deriveGPU carries on equals the last prefix sum plus the last     *)
(* count.                                                                  *)
(***************************************************************************)
C23_OutputCountIsScannedTotal ==
    LET n == paramsBuffer[1]
    IN  (tracked /\ gpuPc = "loop" /\ gpuGen >= 1 /\ queue = <<>>)
            => currentCount = BufRead(bufs["prefixSums"], n - 1)
                                  + BufRead(bufs["counts"], n - 1)

(***************************************************************************)
(* C30: before the scatter pass of each generation the output buffer holds *)
(* at least as many symbols as the generation puts out: when the derive    *)
(* pass is the next the device runs, ctx.currentBufferSize is at least the *)
(* total output length of the generation's inputCount symbols.             *)
(***************************************************************************)
C30_OutputFitsBuffer ==
    (queue # <<>> /\ Head(queue).op = "derive")
        => ctx.currentBufferSize >= DerivedLength(paramsBuffer[1], grammar, 1)

(***************************************************************************)
(* C22: after the scan passes of a generation (per-block scan, block-sums  *)
(* scan, broadcast add), prefixSums[i] is the sum of counts[j] over j < i  *)
(* for every i below the input count, also when the input spans more than  *)
(* one block of 512 elements: when the derive pass is the next the device  *)
(* runs, prefixSums[0] = 0 and prefixSums[i] = prefixSums[i-1] +           *)
(* counts[i-1] for the other i.                                            *)
(***************************************************************************)
C22_PrefixSumsAreExclusiveScan ==
    (queue # <<>> /\ Head(queue).op = "derive")
        => \A i \in 0..(paramsBuffer[1] - 1) :
              BufRead(bufs["prefixSums"], i)
                  = IF i = 0 THEN 0
                    ELSE BufRead(bufs["prefixSums"], i - 1) + BufRead(bufs["counts"], i - 1)

(***************************************************************************)
(* C24: in the scatter pass position i writes exactly the output indices   *)
(* offsets[i] .. offsets[i] + counts[i] - 1, counts[i] being what the      *)
(* count pass stored; the ranges of distinct positions are pairwise        *)
(* disjoint and together cover 0 .. total - 1, total being the sum of the  *)
(* counts.  Stated in the states where the derive pass is the next the     *)
(* device runs.                                                            *)
(***************************************************************************)
C24_ScatterRangesPartitionOutput ==
    LET n == paramsBuffer[1]
        Range(i) == DeriveRange(paramsBuffer, bufs[Head(queue).src], bufs["prefixSums"],
                                rulesBuffer, i)
        RECURSIVE Total(_, _)
        Total(lo, hi) ==
            IF lo > hi THEN 0
            ELSE IF lo = hi THEN BufRead(bufs["counts"], lo)
            ELSE Total(lo, (lo + hi) \div 2) + Total((lo + hi) \div 2 + 1, hi)
    IN  (queue # <<>> /\ Head(queue).op = "derive")
            => /\ \A i \in 0..(n - 1) :
                     Range(i) = BufRead(bufs["prefixSums"], i)
                                    ..(BufRead(bufs["prefixSums"], i)
                                           + BufRead(bufs["counts"], i) - 1)
               /\ \A i, j \in 0..(n - 1) : i # j => Range(i) \cap Range(j) = {}
               /\ UNION {Range(i) : i \in 0..(n - 1)} = 0..(Total(0, n - 1) - 1)

(***************************************************************************)
(* C21: after any sequence of store and UI actions (setIterations,         *)
(* loadPreset, edits of the grammar, the arrow keys), whenever deriveN is  *)
(* invoked the iteration count is at most calculateSafeGenerations of the  *)
(* grammar it is invoked with, which is the current grammar.  cachedSymbols *)
(* is the result of the last invocation and records its arguments.         *)
(***************************************************************************)
C21_DerivationWithinSafeGenerations ==
    cached.cachedSymbols # NoSymbols
        => cached.cachedSymbols.iterations <= getSafeMaxIterations(cached.cachedSymbols)

(***************************************************************************)
(* C25: after any interleaving of grammar, iteration, angle and colour     *)
(* changes with calls of computeSegments, computeVertexBuffer and          *)
(* computeSegmentsAsync, what computeSegments returns is the               *)
(* interpretation of the current symbol sequence under the current angle   *)
(* and colour settings, never segments cached for an earlier sequence or   *)
(* setting.                                                                *)
(***************************************************************************)
C25_SegmentsAreCurrent ==
    LET derived == DeriveSymbolsStore(cached, lsystemParams)
        returned == InterpretToSegmentsStore(derived, lsystemParams, visualState,
                                             derived.cachedSymbols).cachedSegments
        current == DerivedSymbols(lsystemParams.axiomLength, lsystemParams.rules,
                                  lsystemParams.iterations)
    IN  returned = interpretFastStore(current, lsystemParams.angle, visualState)

(***************************************************************************)
(* C26: in the parallel turtle the heading computed for position i is the  *)
(* heading at entry of its enclosing scope plus the angle deltas of the    *)
(* earlier symbols of that scope only, rotations inside nested bracket     *)
(* ranges closed before i not contributing: on a bracket-balanced sequence *)
(* it is the heading the sequential turtle has when it reaches position i. *)
(* Stated once accumulate_angles has run.                                  *)
(***************************************************************************)
C26_HeadingIsScopeRelative ==
    (/\ interp = "parallel"
     /\ tpc \in {"compute_positions", "generate_segments", "done"}
     /\ IsBalanced(Ids(input)))
        => \A i \in DOMAIN run.angle_at :
              run.angle_at[i] = CpuRun(NewRun("f64"), input, 1, i, turnAngle).turtle.angle

(***************************************************************************)
(* C27: in every pass of the parallel turtle no invocation reads a buffer  *)
(* element that another invocation of the same pass writes, and a value    *)
(* inherited from the parent scope, the heading or the position stored at  *)
(* the scope's "[", has been written by an earlier pass before it is read. *)
(* Stated in the states where the pass is the next to be dispatched.       *)
(***************************************************************************)
C27_PassesReadEarlierPassesOnly ==
    LET syms == Ids(input)
        positions == DOMAIN run.angle_at
        open_idx(i) == run.bracket_open_idx[i]
    IN  (/\ interp = "parallel"
         /\ tpc \in {"compute_bracket_depth", "find_bracket_opens", "compute_angles",
                     "accumulate_angles", "compute_positions", "generate_segments"})
            => /\ \A i, j \in positions :
                     i # j => PassReads(tpc, syms, run, i) \cap PassWrites(tpc, run, j) = {}
               /\ tpc = "accumulate_angles"
                     => \A i \in positions :
                           (open_idx(i) >= 0 /\ open_idx(i) # i)
                               => \E pass \in {"accumulate_angles"} :
                                     <<"angle_at", open_idx(i), pass>> \in run.written
               /\ tpc = "compute_positions"
                     => \A i \in positions :
                           (run.is_draw_cmd[i] = 1 /\ open_idx(i) >= 0)
                               => \E pass \in {"compute_positions"} :
                                     /\ <<"pos_x", open_idx(i), pass>> \in run.written
                                     /\ <<"pos_y", open_idx(i), pass>> \in run.written

(***************************************************************************)
(* C38: derive applies a parametric rule to a symbol only if the rule's    *)
(* predecessor is the symbol's id, the rule has as many parameters as the  *)
(* symbol, and the rule's condition, if it has one, evaluates to a value   *)
(* other than 0 under the binding: a rule whose condition evaluates to 0   *)
(* or fails to evaluate does not fire.  One step of derive emits either    *)
(* the successor of such a rule or what it emits without parametric rules. *)
(***************************************************************************)
C38_ParametricRuleFiresOnlyIfGuardHolds ==
    [][(pc = "derive" /\ idx <= Len(symbols) /\ idx' = idx + 1)
          => LET symbol == symbols[idx]
                 Fires(rule) ==
                     /\ rule.predecessor = symbol.id
                     /\ Len(rule.params) = Len(symbol.params)
                     /\ rule.condition.type # "none"
                           => LET c == evaluateExpression(rule.condition,
                                                          Binding(rule, symbol))
                              IN  c.ok /\ c.value # 0
             IN  \/ \E i \in 1..Len(grammar.parametricRules) :
                        /\ Fires(grammar.parametricRules[i])
                        /\ result' = result \o ApplyParamRule(grammar.parametricRules[i],
                                                              symbol)
                 \/ result' = result \o <<symbol>>
                 \/ \E j \in 1..Len(grammar.rules) :
                        /\ grammar.rules[j].predecessor = symbol.id
                        /\ result' = result \o ApplyD0LRule(grammar.rules[j])]_vars

\* derive has rewritten A(2) by the rule whose condition l is 2, passing the
\* rules whose condition fails or is 0, and has kept B(0)
C38_Witness ==
    /\ grammar = GrammarGuarded
    /\ pc = "derive" /\ gen = 0 /\ idx = 3
    /\ result = <<PSym("A", <<1>>), PSym("B", <<0>>)>>

(***************************************************************************)
(* C40: for a D0L grammar g and a ceiling M on the number of symbols,      *)
(* deriving calculateSafeGenerations(g, M) generations from the axiom      *)
(* gives a sequence of at most M symbols.                                  *)
(***************************************************************************)
C40_SafeGenerationsStayBelowCeiling ==
    (safeGenerations # 0 /\ IsDeterministicD0L(grammar))
        => DerivedSize(grammar, safeGenerations) <= maxSymbols

(***************************************************************************)
(* C39: when several rules match a symbol, for a draw r in [0, sum of the  *)
(* weights), the weight of a rule being its probability, the rule selected *)
(* is the first one in rule order whose cumulative weight exceeds r; so    *)
(* every rule of positive weight is selected by some draw and a rule of    *)
(* weight 0 by none.  Stated for each loop pass of derive that chooses     *)
(* among several rules: the pass emits the successor of a rule selected so.*)
(***************************************************************************)
C39_FirstRuleWhoseCumulativeWeightExceedsDraw ==
    [][(pc = "derive" /\ idx <= Len(symbols) /\ idx' = idx + 1)
          => LET symbol == symbols[idx]
                 matchingRules == ParamCandidates(symbol, grammar.parametricRules)
                 candidates == IF matchingRules # <<>> THEN matchingRules
                               ELSE RulesFor(grammar.rules, symbol.id)
                 RECURSIVE Cumulative(_)
                 Cumulative(k) ==
                     IF k = 0 THEN 0 ELSE Cumulative(k - 1) + candidates[k].probability
                 total == Cumulative(Len(candidates))
                 First(r) == CHOOSE k \in 1..Len(candidates) :
                                 /\ Cumulative(k) > r
                                 /\ \A j \in 1..(k - 1) : Cumulative(j) <= r
                 Successor(rule) == IF matchingRules # <<>> THEN ApplyParamRule(rule, symbol)
                                    ELSE ApplyD0LRule(rule)
             IN  (Len(candidates) >= 2 /\ total > 0)
                    => /\ \A r \in 0..(total - 1) :
                             selectStochasticRule(candidates, r) = candidates[First(r)]
                       /\ \E r \in 0..(total - 1) :
                             result' = result \o Successor(candidates[First(r)])
                       /\ \A k \in 1..Len(candidates) :
                             (candidates[k].probability > 0)
                                <=> \E r \in 0..(total - 1) :
                                       selectStochasticRule(candidates, r) = candidates[k]]_vars

\* derive has chosen among the four rules of F with the weights 0, 1, 0.25
\* and 0 twice: F -> + for the first F of the axiom and F -> F for the second
C39_Witness ==
    /\ grammar = GrammarWeighted
    /\ pc = "derive" /\ gen = 0 /\ idx = 3
    /\ result = StringToSymbols(<<"+", "F">>)

(***************************************************************************)
(* C37: within one interpretation every "[" assigns a branchId taken from  *)
(* a strictly increasing counter, so the ids assigned at distinct "[" are  *)
(* pairwise distinct and different from the root id 0, and every segment   *)
(* carries the branchId of its innermost enclosing open bracket.  Stated   *)
(* on the segments an interpreter returns, one per drawable symbol: a      *)
(* segment has the id 0 exactly when it is drawn outside every open "[",   *)
(* two segments have the same id exactly when the same "[" encloses them,  *)
(* and a later "[" gives a larger id.                                      *)
(***************************************************************************)
C37_SegmentsCarryFreshBranchIds ==
    LET ids == Ids(input)
        drawable == IF interp = "fast" THEN {"F", "G", "A", "B"} ELSE {"F", "G"}
        drawn == {k \in 1..Len(ids) : ids[k] \in drawable}
        \* the positions of the "[" open before symbol k, innermost last
        RECURSIVE Open(_)
        Open(k) ==
            IF k = 1 THEN <<>>
            ELSE LET before == Open(k - 1)
                 IN  IF ids[k - 1] = "[" THEN Append(before, k - 1)
                     ELSE IF ids[k - 1] = "]" /\ before # <<>>
                     THEN SubSeq(before, 1, Len(before) - 1)
                     ELSE before
        Enclosing(k) == IF Open(k) = <<>> THEN 0 ELSE Open(k)[Len(Open(k))]
        \* the position of the symbol that drew the n-th segment
        Drew(n) == CHOOSE k \in drawn : Cardinality({j \in drawn : j <= k}) = n
        segments == turtleResult.segments
    IN  (/\ tpc = "done"
         /\ interp \in {"cpu", "fast", "gpu"}
         /\ Len(ids) <= StackCapacity
         /\ Len(segments) = Cardinality(drawn))
            => \A m, n \in 1..Len(segments) :
                  /\ segments[n].branchId = 0 <=> Enclosing(Drew(n)) = 0
                  /\ segments[m].branchId = segments[n].branchId
                        <=> Enclosing(Drew(m)) = Enclosing(Drew(n))
                  /\ Enclosing(Drew(m)) < Enclosing(Drew(n))
                        => segments[m].branchId < segments[n].branchId

(***************************************************************************)
(* C36: after regenerate(), the next call of computeSegments or of         *)
(* computeVertexBuffer derives the symbol sequence again and interprets it *)
(* again, and computeVertexBuffer returns changed = true, instead of       *)
(* returning the geometry cached before.                                   *)
(***************************************************************************)
C36_RegenerateForcesRecompute ==
    [][(/\ events.last.call = "regenerate"
        /\ events'.last # events.last
        /\ events'.last.call \in {"computeSegments", "computeVertexBuffer"})
          => /\ events'.last.derived
             /\ events'.last.interpreted
             /\ events'.last.call = "computeVertexBuffer" => events'.last.changed]_vars

(***************************************************************************)
(* C35: within one generation every compute pass (count, per-block scan,   *)
(* block-sums scan, broadcast add, scatter) executes with the parameter    *)
(* values the host wrote for that pass: when the device is about to        *)
(* execute a pass, the parameter buffer holds the values written just      *)
(* before the pass was encoded.                                            *)
(***************************************************************************)
C35_PassReadsItsOwnParams ==
    (/\ queue # <<>>
     /\ Head(queue).op \in {"compute_counts", "scan_blocks", "add_block_sums", "derive"})
        => paramsBuffer = Head(queue).data

(***************************************************************************)
(* C31: in the work-group local Blelloch scan no element of the shared     *)
(* array is written by one thread and read or written by another thread    *)
(* between two barriers, so every interleaving that respects the barriers  *)
(* gives one result; and when the device is about to run scan_blocks, the  *)
(* output of every block is the exclusive prefix sum of the block's inputs *)
(* (element 0 is 0 and every later element is its predecessor plus the     *)
(* predecessor's input) and the block total is stored in block_sums.       *)
(***************************************************************************)
C31_LocalScanIsRaceFreeAndExclusive ==
    /\ ScanBlocksRaceFree
    /\ ScanAnglesRaceFree
    /\ (tracked /\ queue # <<>> /\ Head(queue).op = "scan_blocks") =>
          LET c == Head(queue)
              count == paramsBuffer[1]
              after == Executed(c, TRUE)
          IN  \A wg \in 0..(c.wg - 1) :
                  LET loaded == LoadBlock(bufs[c.src], count, wg)
                      block == ScanBlock(bufs[c.src], count, wg)
                  IN  /\ block.scanned[0] = 0
                      /\ \A k \in 1..(ELEMENTS_PER_BLOCK - 1) :
                             block.scanned[k] = block.scanned[k - 1] + loaded[k - 1]
                      /\ block.sum = block.scanned[ELEMENTS_PER_BLOCK - 1]
                                        + loaded[ELEMENTS_PER_BLOCK - 1]
                      /\ BufRead(after[c.sums], wg) = block.sum
                      /\ \A k \in 0..(ELEMENTS_PER_BLOCK - 1) :
                             wg * ELEMENTS_PER_BLOCK + k < count =>
                                BufRead(after[c.dst], wg * ELEMENTS_PER_BLOCK + k)
                                  = block.scanned[k]

\* the device is about to scan the two blocks of a 1000-symbol input, and the
\* second block's total is not 0
C31_Witness ==
    /\ tracked
    /\ queue # <<>>
    /\ Head(queue).op = "scan_blocks"
    /\ Head(queue).wg = 2
    /\ ScanBlock(bufs[Head(queue).src], paramsBuffer[1], 1).sum > 0

C32_OpenIndexIsNearestUnmatchedOpen ==
    LET ids == Ids(input)
        \* the nearest "[" at or before position j that has more than
        \* pending "]" between it and position i
        RECURSIVE NearestOpen(_, _)
        NearestOpen(j, pending) ==
            IF j < 0 THEN 0 - 1
            ELSE IF ids[j + 1] = "]" THEN NearestOpen(j - 1, pending + 1)
            ELSE IF ids[j + 1] = "[" THEN
                    IF pending = 0 THEN j ELSE NearestOpen(j - 1, pending - 1)
            ELSE NearestOpen(j - 1, pending)
    IN  (/\ interp = "parallel"
         /\ tpc \in {"compute_angles", "accumulate_angles", "compute_positions",
                     "generate_segments", "done"}
         /\ IsBalanced(ids))
            => \A i \in DOMAIN run.bracket_open_idx :
                  run.bracket_open_idx[i] = IF ids[i + 1] = "[" THEN i
                                            ELSE NearestOpen(i - 1, 0)

\* the brackets of a depth bucket pair up in index order as match_brackets
\* pairs them: the bucket of every depth value holds an even number of
\* brackets, and the bracket with an even number of bucket entries before it
\* is matched with the next entry of its bucket
BucketsPairAsMatched(syms, depths) ==
    LET brackets == {i \in DOMAIN depths : syms[i + 1] \in {"[", "]"}}
        bucket(d) == {i \in brackets : depths[i] = d}
        rank(i) == Cardinality({j \in bucket(depths[i]) : j < i})
        matched == match_brackets(syms)
    IN  \A i \in brackets :
           /\ Cardinality(bucket(depths[i])) % 2 = 0
           /\ rank(i) % 2 = 0
                 => \E j \in bucket(depths[i]) :
                       /\ rank(j) = rank(i) + 1
                       /\ matched[i] = j
                       /\ matched[j] = i

====
